---- MODULE Spec2Model ----
(***************************************************************************)
(* run_full.py: the Gastown test-cycle orchestrator.                       *)
(*                                                                         *)
(* The model follows main(): preflight, the run set-up, then the eight     *)
(* phase functions in the order main() calls them, with write_readme       *)
(* between phase 3 and phase 4.  Every phase writes into a Report session  *)
(* (class Report), modelled as the sequence of writes made to its file.    *)
(* The environment (exit codes of docker/gt, reachability of the health    *)
(* endpoints, the answers of the telemetry backends, a fault raised in a   *)
(* phase body) is chosen nondeterministically.                             *)
(***************************************************************************)
EXTENDS Integers, Sequences, FiniteSets, TLC

\* ------------------------------------------------------------------ bounds

\* Largest value of CONVOY_TIMEOUT explored (in seconds; -1 is explored too).
MaxTimeout == 3
\* Largest value of the poll interval explored (in seconds).
MaxPoll == 2

\* --------------------------------------------------------------- constants

\* for i in range(30) in phase4_start_gastown
MayorRetries == 30
\* retries: int = 30 in wait_for_http
HttpRetries == 30
\* the expected number of polecats in phase8_recommendations
ExpectedSpawns == 3
\* the input-token threshold in phase8_recommendations
TokenThreshold == 100000

Phases == 1..8

\* REPORTS_DIR / "<name>": the artifact of each phase, and the index file
PhaseArtifact(i) ==
    CASE i = 1 -> "01-otel-reset.md"
      [] i = 2 -> "02-gastown-reset.md"
      [] i = 3 -> "03-otel-start.md"
      [] i = 4 -> "04-gastown-start.md"
      [] i = 5 -> "05-test-launch.md"
      [] i = 6 -> "06-test-results.md"
      [] i = 7 -> "07-otel-data.md"
      [] i = 8 -> "08-recommendations.md"

ReadmeArtifact == "README.md"

Artifacts == {PhaseArtifact(i) : i \in Phases} \cup {ReadmeArtifact}

\* what preflight() looks for
Prerequisites == {"docker", "git", "gt", "PROMPT_FILE", "TRACE_BIN"}

\* exit codes a tool may return (0 = success)
ReturnCodes == {0, 1}

VARIABLES
    pc,                 \* position of the single thread of control
    exitCode,           \* -1 while the process runs, else its exit status
    errors_pre,         \* preflight(): the prerequisites found missing
    reportsDir,         \* REPORTS_DIR has been created
    latestLink,         \* reports/latest has been repointed at REPORTS_DIR
    handlers,           \* _cleanup is registered for SIGINT and SIGTERM
    procSpawned,        \* some external process has been spawned
    daemon,             \* gastown-trace: "none", "launched" or "killed"
    trace_proc,         \* main's trace_proc: "none" or "handle"
    started,            \* started[i]: how many times phase i was entered
    artifact,           \* artifact[a]: the writes made to file a, in order
    opens,              \* opens[a]: Report.__init__ calls on a
    closes,             \* closes[a]: Report.close calls on a
    phaseFailed,        \* a tool of the running phase returned nonzero, or
                        \* its wait condition timed out
    faultAt,            \* where a fault was raised: "none", an artifact
                        \* (inside its session) or "PROMPT_FILE"
    rc,                 \* the local rc of the running phase
    tries,              \* loop counter of wait_for_http / the mayor loop
    vm_ok, vl_ok,       \* phase 3 locals
    alive,              \* phase 3 local
    mayor_ready,        \* phase 4 local, then main's
    timeout,            \* CONVOY_TIMEOUT
    poll,               \* CONVOY_POLL
    landed, elapsed,    \* phase 6 locals
    calls,              \* number of convoy_landed() invocations
    poller,             \* the poller: "Idle", "Polling", "Landed", "TimedOut"
    m_landed, m_elapsed,\* main's landed, elapsed (line 751)
    a_landed, a_elapsed,\* phase 8's parameters landed, elapsed
    p7_errors,          \* phase 7: vl_count(...) of the "errors" row
    log_answer,         \* what the log endpoint answered to phase 8
    metric_answer,      \* what the metrics endpoint answered to phase 8's
                        \* queries of the spawn and the input-token totals
    summary_errors,     \* the cell "Errors in logs" of the run summary
    errors,             \* phase 8 local: vl_count(...)
    polecat_spawns,     \* phase 8 local: vm_scalar(...)
    input_tokens,       \* phase 8 local: vm_scalar(...)
    recs,               \* the recommendations emitted: <<n, kind>> in order
    listing,            \* phase 6: what the last `gt convoy list` returned
    in_cleanup,         \* "none", or the message _cleanup has printed while
                        \* it has not returned yet
    fn_in, fn_out       \* a helper called on its own: its argument, its result

vars == <<pc, exitCode, errors_pre, reportsDir, latestLink, handlers,
          procSpawned, daemon, trace_proc, started, artifact, opens, closes,
          phaseFailed, faultAt, rc, tries, vm_ok, vl_ok, alive,
          mayor_ready, timeout, poll, landed, elapsed, calls, poller,
          m_landed, m_elapsed, a_landed, a_elapsed, p7_errors,
          log_answer, errors, polecat_spawns, input_tokens, recs, listing,
          metric_answer, summary_errors, in_cleanup,
          fn_in, fn_out>>

\* groups of variables, for UNCHANGED
fnVars    == <<fn_in, fn_out>>
runVars   == <<errors_pre, reportsDir, latestLink, handlers, timeout, poll,
               fnVars, in_cleanup>>
procVars  == <<daemon, trace_proc>>
p3Vars    == <<vm_ok, vl_ok, alive>>
pollVars  == <<landed, elapsed, calls, poller, listing>>
passVars  == <<m_landed, m_elapsed, a_landed, a_elapsed, p7_errors>>
p8Vars    == <<log_answer, errors, polecat_spawns, input_tokens, recs,
               metric_answer, summary_errors>>
\* the variables of main and of the phases, but for the position of control
mainVars  == <<exitCode, errors_pre, reportsDir, latestLink, handlers,
               timeout, poll, procSpawned, procVars, started, artifact,
               opens, closes, phaseFailed, faultAt, rc, tries, p3Vars,
               mayor_ready, pollVars, passVars, p8Vars>>
\* everything a phase other than 3, 4, 6 and 8 leaves alone
farVars   == <<exitCode, runVars, procVars, p3Vars, mayor_ready, pollVars,
               passVars, p8Vars, faultAt>>

\* ----------------------------------------------------------- Report class

\* Report.status (lines 143-146) as called by Report.close (line 149): the
\* closing status line, with the "Completed" or the "Phase failed" label.
CloseStatusNoFailLine(ok) == IF ok THEN <<"Completed">> ELSE <<>>
CloseStatus(ok) == IF ok THEN <<"Completed">> ELSE <<"Phase failed">>

\* Report.__exit__ (line 156): ok = exc_type is None
ExitOk(raised) == ~raised

\* Report.__init__ (lines 104-107): opens the file for writing (truncating
\* it) and writes the banner; toks are the writes that follow in the step.
ReportOpen(a, toks) ==
    /\ opens' = [opens EXCEPT ![a] = @ + 1]
    /\ artifact' = [artifact EXCEPT ![a] = <<"banner">> \o toks]
    /\ UNCHANGED closes

\* Report.write (lines 109-112) called for each of toks, in order.
ReportWrite(a, toks) ==
    /\ artifact' = [artifact EXCEPT ![a] = @ \o toks]
    /\ UNCHANGED <<opens, closes>>

\* Report.__exit__ -> Report.close (lines 148-156), after the writes toks of
\* the step that leaves the with-block.
ReportExitLeavesOpen(a, toks, raised) ==
    /\ artifact' = [artifact EXCEPT ![a] = @ \o toks \o CloseStatus(ExitOk(raised))]
    /\ UNCHANGED <<opens, closes>>
ReportExit(a, toks, raised) ==
    /\ artifact' = [artifact EXCEPT ![a] = @ \o toks \o CloseStatus(ExitOk(raised))]
    /\ closes' = [closes EXCEPT ![a] = @ + 1]
    /\ UNCHANGED opens

\* the session on a is open: constructed and not yet closed
IsOpen(a) == opens[a] > closes[a]

\* ---------------------------------------------------------- shell helpers

\* run_cmd (lines 160-176): spawns the command and returns its exit code;
\* a nonzero code is an ordinary result.
RunCmd(code) ==
    /\ rc' = code
    /\ procSpawned' = TRUE
    /\ phaseFailed' = (phaseFailed \/ code # 0)

\* entry of phase function i
Enter(i) ==
    /\ started' = [started EXCEPT ![i] = @ + 1]

\* ---------------------------------------------------------------- strings

\* A Python str is the tuple of its characters.
UpperChars == <<"A","B","C","D","E","F","G","H","I","J","K","L","M",
                "N","O","P","Q","R","S","T","U","V","W","X","Y","Z">>
LowerChars == <<"a","b","c","d","e","f","g","h","i","j","k","l","m",
                "n","o","p","q","r","s","t","u","v","w","x","y","z">>

\* str.lower() on one character, then on a string
LowerChar(c) ==
    IF \E i \in DOMAIN UpperChars : UpperChars[i] = c
       THEN LowerChars[CHOOSE i \in DOMAIN UpperChars : UpperChars[i] = c]
       ELSE c
Lower(s) == [i \in DOMAIN s |-> LowerChar(s[i])]

\* `sub in s` for two strings
Contains_str(sub, s) ==
    \E k \in 0..(Len(s) - Len(sub)) :
        \A i \in 1..Len(sub) : s[k + i] = sub[i]

\* the literals of convoy_landed (lines 265-266)
S_crypto == <<"c","r","y","p","t","o">>
S_tales  == <<"t","a","l","e","s">>
S_closed == <<"c","l","o","s","e","d">>
S_landed == <<"l","a","n","d","e","d">>

\* ------------------------------------------------------------ JSON values

\* A decoded JSON value carries its Python type in t.  A key that the object
\* does not have is Absent.
Absent == [t |-> "absent"]
Null   == [t |-> "null"]
Num    == [t |-> "num"]
Str(s) == [t |-> "str", v |-> s]
Obj(title, name, status) ==
    [t |-> "object", title |-> title, name |-> name, status |-> status]
Arr(items) == [t |-> "array", items |-> items]

\* what run_gt hands back to convoy_landed (line 256): the exit code and the
\* output, which is empty, blank, not JSON, or the JSON document doc
GtOutput(code, form, doc) == [rc |-> code, form |-> form, doc |-> doc]

\* ---------------------------------------------------------- convoy_landed

\* c.get(key, "") (lines 263-264)
Get(c, key) == IF c[key].t = "absent" THEN Str(<<>>) ELSE c[key]

\* the outcome of the loop body (lines 263-267) on one element: "match"
\* (return True), "next", or "raise".  A non-dict has no .get; + needs two
\* str operands to give a str; .lower() needs a str.
BodyNoStatus(c) ==
    IF c.t # "object" THEN "raise"
    ELSE LET a == Get(c, "title")
             b == Get(c, "name")
             st == Get(c, "status")
         IN IF a.t # "str" \/ b.t # "str" \/ st.t # "str" THEN "raise"
            ELSE LET title == Lower(a.v \o b.v)
                 IN IF Contains_str(S_crypto, title) \/ Contains_str(S_tales, title)
                       THEN "match" ELSE "next"
Body(c) ==
    IF c.t # "object" THEN "raise"
    ELSE LET a == Get(c, "title")
             b == Get(c, "name")
             st == Get(c, "status")
         IN IF a.t # "str" \/ b.t # "str" \/ st.t # "str" THEN "raise"
            ELSE LET title == Lower(a.v \o b.v)
                     status == Lower(st.v)
                 IN IF /\ Contains_str(S_crypto, title) \/ Contains_str(S_tales, title)
                       /\ status \in {S_closed, S_landed}
                       THEN "match" ELSE "next"

\* for c in convoys (lines 262-267), from element i on: True at the first
\* match; an exception ends the loop in the except clause (line 268) and
\* the function returns False (line 269)
RECURSIVE Scan(_, _)
Scan(items, i) ==
    IF i > Len(items) THEN FALSE
    ELSE LET r == Body(items[i])
         IN IF r = "match" THEN TRUE
            ELSE IF r = "raise" THEN FALSE
            ELSE Scan(items, i + 1)

\* convoy_landed (lines 254-269)
convoy_landedIgnoresRc(out) ==
    IF out.form # "json" THEN FALSE
    ELSE IF out.doc.t # "array" THEN FALSE
    ELSE Scan(out.doc.items, 1)
convoy_landed(out) ==
    IF out.rc # 0 \/ out.form \in {"empty", "blank"} THEN FALSE
    ELSE IF out.form # "json" THEN FALSE
    ELSE IF out.doc.t # "array" THEN FALSE
    ELSE Scan(out.doc.items, 1)

\* ------------------------------------------------------ telemetry helpers

\* What a backend does with one request: the transport fails (connection
\* refused, timeout, an HTTP error status) or it answers with a body.
Transports == {"unreachable", "timeout", "http error", "ok"}
Response(transport, body) == [transport |-> transport, body |-> body]

\* http_get (lines 202-208): the decoded body, or None on any exception
http_get(resp) == IF resp.transport = "ok" THEN Str(resp.body) ELSE Null

\* the characters str.strip() removes and str.splitlines() splits at
Whitespace == {" ", "\n", "\t"}
LineEnds == {"\n"}

\* str.splitlines()
RECURSIVE SplitLines(_)
SplitLines(s) ==
    IF s = <<>> THEN <<>>
    ELSE LET ends == {i \in 1..Len(s) : s[i] \in LineEnds}
             k == IF ends = {} THEN Len(s) + 1
                  ELSE CHOOSE i \in ends : \A j \in ends : i <= j
         IN <<SubSeq(s, 1, k - 1)>> \o SplitLines(SubSeq(s, k + 1, Len(s)))

\* str.strip()
RECURSIVE Strip(_)
Strip(l) ==
    IF l = <<>> THEN l
    ELSE IF l[1] \in Whitespace THEN Strip(Tail(l))
    ELSE IF l[Len(l)] \in Whitespace THEN Strip(SubSeq(l, 1, Len(l) - 1))
    ELSE l

\* bool(s) for a str
Truthy(s) == s # <<>>

\* vl_count (lines 245-250)
vl_countAllLines(resp) ==
    LET body == http_get(resp)
    IN IF body = Null THEN -1 ELSE Len(SplitLines(body.v))
vl_count(resp) ==
    LET body == http_get(resp)
    IN IF body = Null THEN -1
       ELSE Len(SelectSeq(SplitLines(body.v), LAMBDA l : Truthy(Strip(l))))

\* ------------------------------------------------------------- floats

\* A Python float is the integer number of its tenths: 42.5 is 425.
Scale == 10
\* int(x) for a float x (lines 536-539, 573): truncation towards zero
Trunc(x) == IF x >= 0 THEN x \div Scale ELSE -((-x) \div Scale)

\* a float object: a finite value in tenths, or not-a-number
Float(x) == [t |-> "float", nan |-> FALSE, v |-> x]
NaN == [t |-> "float", nan |-> TRUE, v |-> 0]
\* an exception left the expression
Raised == [t |-> "raise"]
\* a JSON number, in tenths
NumV(x) == [t |-> "num", v |-> x]

Digits == <<"0","1","2","3","4","5","6","7","8","9">>
DigitVal(c) == (CHOOSE i \in DOMAIN Digits : Digits[i] = c) - 1
IsDigits(s) == \A i \in DOMAIN s : \E d \in DOMAIN Digits : Digits[d] = s[i]

\* the value of a string of digits
RECURSIVE Decimal(_)
Decimal(s) ==
    IF s = <<>> THEN 0
    ELSE Decimal(SubSeq(s, 1, Len(s) - 1)) * 10 + DigitVal(s[Len(s)])

S_nan == <<"n","a","n">>

\* float(s) for a str (line 239): white space is stripped; "nan" in any
\* case is not-a-number; digits with at most one point are a number, of
\* which the tenths are kept; anything else is a ValueError
ParseFloat(s) ==
    LET u == Strip(s)
        points == {i \in 1..Len(u) : u[i] = "."}
        k == IF points = {} THEN Len(u) + 1 ELSE CHOOSE i \in points : TRUE
        whole == SubSeq(u, 1, k - 1)
        frac == SubSeq(u, k + 1, Len(u))
    IN IF Lower(u) = S_nan THEN NaN
       ELSE IF /\ Cardinality(points) <= 1
               /\ IsDigits(whole) /\ IsDigits(frac)
               /\ Len(whole) + Len(frac) > 0
               THEN Float(Decimal(whole) * Scale
                          + (IF frac = <<>> THEN 0 ELSE DigitVal(frac[1])))
       ELSE Raised

\* float(x) for a decoded JSON value
ToFloat(x) ==
    IF x.t = "str" THEN ParseFloat(x.v)
    ELSE IF x.t = "num" THEN Float(x.v)
    ELSE Raised

\* ------------------------------------------------- vm_query and vm_scalar

\* The body of an answer of the metrics endpoint: empty, text that is not
\* JSON, or the JSON document doc.
VmBody(form, doc) == [form |-> form, doc |-> doc]

\* the objects of an instant-query answer: {"data": ...}, {"result": ...}
\* and {"metric": ..., "value": ...}; a key may be Absent
Top(data) == [t |-> "object", data |-> data]
Data(result) == [t |-> "object", result |-> result]
Sample(metric, value) == [t |-> "object", metric |-> metric, value |-> value]
Labels == [t |-> "object"]

\* the texts of a sample: a timestamp, the numeral 42.5, not-a-number
L_ts == <<"t","s">>
L_42_5 == <<"4","2",".","5">>
L_NaN == <<"N","a","N">>

\* json.loads(body)
JsonLoads(body) == IF body.form = "json" THEN body.doc ELSE Raised

\* `not x` for a decoded JSON value
Falsy(x) ==
    \/ x.t = "null"
    \/ x.t = "array" /\ x.items = <<>>
    \/ x.t = "str" /\ x.v = <<>>
    \/ x.t = "num" /\ x.v = 0

\* json.loads(body).get("data", {}).get("result", []) (lines 217, 238)
ResultsOf(doc) ==
    IF doc.t # "object" THEN Raised
    ELSE LET data == IF doc.data = Absent THEN Data(Absent) ELSE doc.data
         IN IF data.t # "object" THEN Raised
            ELSE IF data.result = Absent THEN Arr(<<>>)
            ELSE data.result

\* x[1] for a decoded JSON value
Index1(x) ==
    IF x.t = "array" /\ Len(x.items) >= 2 THEN x.items[2]
    ELSE IF x.t = "str" /\ Len(x.v) >= 2 THEN Str(<<x.v[2]>>)
    ELSE Raised

\* the try block of vm_scalar (lines 237-239)
ScalarTry(body) ==
    LET doc == JsonLoads(body)
    IN IF doc = Raised THEN Raised
       ELSE LET results == ResultsOf(doc)
            IN IF results = Raised THEN Raised
               ELSE IF Falsy(results) THEN Float(0)
               ELSE IF results.t # "array" THEN Raised
               ELSE LET first == results.items[1]
                    IN IF first.t # "object" THEN Raised
                       ELSE IF first.value = Absent THEN Raised
                       ELSE LET x == Index1(first.value)
                            IN IF x = Raised THEN Raised ELSE ToFloat(x)

\* vm_scalar (lines 233-242)
vm_scalarNoExcept(resp) ==
    LET body == http_get(resp)
    IN IF body = Null \/ body.v.form = "empty" THEN Float(0)
       ELSE ScalarTry(body.v)
vm_scalar(resp) ==
    LET body == http_get(resp)
    IN IF body = Null \/ body.v.form = "empty" THEN Float(0)
       ELSE LET r == ScalarTry(body.v)
            IN IF r = Raised THEN Float(0) ELSE r

\* what vm_query returns: one of the two markers, or the formatted lines
NoData == [t |-> "text", kind |-> "no data", lines |-> <<>>]
ParseError == [t |-> "text", kind |-> "parse error", lines |-> <<>>]
Lines(ls) == [t |-> "text", kind |-> "lines", lines |-> ls]

S_na == <<"n","/","a">>

\* the body of the loop of vm_query (lines 221-226) on one result: the
\* value shown on its line.  dict() of a metric that is not an object
\* raises (the metrics explored are absent, null or an object).
LineOf(r) ==
    IF r.t # "object" THEN Raised
    ELSE IF r.metric # Absent /\ r.metric.t # "object" THEN Raised
    ELSE IF r.value = Absent THEN Str(S_na)
    ELSE Index1(r.value)

\* the try block of vm_query (lines 216-228)
QueryTry(body) ==
    LET doc == JsonLoads(body)
    IN IF doc = Raised THEN Raised
       ELSE LET results == ResultsOf(doc)
            IN IF results = Raised THEN Raised
               ELSE IF Falsy(results) THEN NoData
               ELSE IF results.t # "array" THEN Raised
               ELSE IF \E i \in DOMAIN results.items : LineOf(results.items[i]) = Raised
                       THEN Raised
               ELSE Lines([i \in DOMAIN results.items |-> LineOf(results.items[i])])

\* vm_query (lines 211-230)
vm_query(resp) ==
    LET body == http_get(resp)
    IN IF body = Null \/ body.v.form = "empty" THEN NoData
       ELSE LET r == QueryTry(body.v)
            IN IF r = Raised THEN ParseError ELSE r

\* ----------------------------------------------------------- Report.table

\* str.ljust(w): s, padded with blanks on the right up to w characters
Ljust(s, w) == s \o [i \in 1..(w - Len(s)) |-> " "]

\* sep.join(parts) for strings
RECURSIVE Join(_, _)
Join(sep, parts) ==
    IF parts = <<>> THEN <<>>
    ELSE IF Len(parts) = 1 THEN parts[1]
    ELSE parts[1] \o sep \o Join(sep, Tail(parts))

\* max() of a non-empty set of numbers
MaxOf(S) == CHOOSE x \in S : \A y \in S : y <= x

\* line 133: the width of each header's column; r[i] raises IndexError when
\* a row has no cell i
TableWidths(headers, rows) ==
    IF \E i \in DOMAIN headers, k \in DOMAIN rows : i > Len(rows[k])
       THEN Raised
       ELSE [t |-> "widths",
             w |-> [i \in DOMAIN headers |->
                      MaxOf({Len(headers[i])}
                            \cup {MaxOf({0} \cup {Len(rows[k][i]) : k \in DOMAIN rows})})]]

\* row_str (lines 135-136): zip stops at the shorter of cells and widths
RowStr(cells, w) ==
    LET n == IF Len(cells) < Len(w) THEN Len(cells) ELSE Len(w)
    IN <<"|", " ">>
          \o Join(<<" ", "|", " ">>, [i \in 1..n |-> Ljust(cells[i], w[i])])
          \o <<" ", "|">>

\* "-" * (w + 2) (line 137)
SepDashesNarrow(w) == [i \in 1..w |-> "-"]
SepDashes(w) == [i \in 1..(w + 2) |-> "-"]

\* sep (line 137)
SepStr(w) ==
    <<"|">> \o Join(<<"|">>, [i \in DOMAIN w |-> SepDashes(w[i])]) \o <<"|">>

\* Report.table (lines 132-141): the lines it writes, or the exception
table(headers, rows) ==
    LET widths == TableWidths(headers, rows)
    IN IF widths = Raised THEN Raised
       ELSE [t |-> "table",
             header |-> RowStr(headers, widths.w),
             sep |-> SepStr(widths.w),
             rows |-> [k \in DOMAIN rows |-> RowStr(rows[k], widths.w)]]

\* ------------------------------------------------------------------- Init

\* no helper is being called on its own
NoCall == [f |-> "none"]
\* no listing has been fetched
NoListing == [rc |-> 0, form |-> "none"]

\* no query has been sent
NoAnswer == [transport |-> "none"]
\* the run summary has not been written
NoCell == <<>>

\* the values of the program's variables before main() has done anything
Fresh ==
    /\ exitCode = -1
    /\ errors_pre = {}
    /\ reportsDir = FALSE
    /\ latestLink = FALSE
    /\ handlers = FALSE
    /\ procSpawned = FALSE
    /\ daemon = "none"
    /\ trace_proc = "none"
    /\ started = [i \in Phases |-> 0]
    /\ artifact = [a \in Artifacts |-> <<>>]
    /\ opens = [a \in Artifacts |-> 0]
    /\ closes = [a \in Artifacts |-> 0]
    /\ phaseFailed = FALSE
    /\ faultAt = "none"
    /\ rc = 0
    /\ tries = 0
    /\ vm_ok = FALSE
    /\ vl_ok = FALSE
    /\ alive = FALSE
    /\ mayor_ready = FALSE
    /\ landed = FALSE
    /\ elapsed = 0
    /\ calls = 0
    /\ poller = "Idle"
    /\ m_landed = FALSE
    /\ m_elapsed = 0
    /\ a_landed = FALSE
    /\ a_elapsed = 0
    /\ p7_errors = 0
    /\ log_answer = NoAnswer
    /\ metric_answer = NoAnswer
    /\ summary_errors = NoCell
    /\ errors = 0
    /\ polecat_spawns = 0
    /\ input_tokens = 0
    /\ recs = <<>>
    /\ listing = NoListing
    /\ in_cleanup = "none"

Init ==
    /\ pc = "preflight"
    /\ Fresh
    /\ timeout \in -1..MaxTimeout
    /\ poll \in 1..MaxPoll
    /\ fn_in = NoCall
    /\ fn_out = NoCall

\* ------------------------------------------------------------------- main

\* preflight() (lines 668-680): collects an error for every missing
\* prerequisite; sys.exit(1) if there is one.
PreflightErrorsNoTraceBin(missing) == missing \ {"TRACE_BIN"}
PreflightErrors(missing) == missing

Preflight ==
    /\ pc = "preflight"
    /\ \E missing \in SUBSET Prerequisites :
          /\ errors_pre' = missing
          /\ IF PreflightErrors(missing) # {}
                THEN pc' = "exit" /\ exitCode' = 1
                ELSE pc' = "setup" /\ exitCode' = exitCode
    /\ UNCHANGED <<reportsDir, latestLink, handlers, timeout, poll, fnVars,
                   in_cleanup,
                   procSpawned, procVars, started, artifact, opens, closes,
                   phaseFailed, faultAt, rc, tries, p3Vars, mayor_ready,
                   pollVars, passVars, p8Vars>>

\* main, lines 719-725: the report directory, the log file, the alias
MainSetup ==
    /\ pc = "setup"
    /\ reportsDir' = TRUE
    /\ latestLink' = TRUE
    /\ pc' = "handlers"
    /\ UNCHANGED <<exitCode, errors_pre, handlers, timeout, poll, fnVars,
                   in_cleanup,
                   procSpawned, procVars, started, artifact, opens, closes,
                   phaseFailed, faultAt, rc, tries, p3Vars, mayor_ready,
                   pollVars, passVars, p8Vars>>

\* main, lines 727-735: trace_proc = None, the two signal.signal calls
InstallHandlers ==
    /\ pc = "handlers"
    /\ handlers' = TRUE
    /\ trace_proc' = "none"
    /\ pc' = "p1"
    /\ UNCHANGED <<exitCode, errors_pre, reportsDir, latestLink, timeout, poll,
                   fnVars, in_cleanup,
                   procSpawned, daemon, started, artifact, opens, closes,
                   phaseFailed, faultAt, rc, tries, p3Vars, mayor_ready,
                   pollVars, passVars, p8Vars>>

\* ---------------------------------------------------------------- phase 1

\* phase1_reset_otel, lines 274-277
Phase1_Open ==
    /\ pc = "p1"
    /\ Enter(1)
    /\ ReportOpen(PhaseArtifact(1), <<"p">>)
    /\ phaseFailed' = FALSE
    /\ pc' = "p1_down"
    /\ UNCHANGED <<farVars, procSpawned, rc, tries>>

\* lines 279-281: docker compose down
Phase1_ComposeDown ==
    /\ pc = "p1_down"
    /\ \E code \in ReturnCodes : RunCmd(code)
    /\ ReportWrite(PhaseArtifact(1), <<"h2", "cmd">>)
    /\ pc' = "p1_rm"
    /\ UNCHANGED <<farVars, started, tries>>

\* lines 283-290: docker volume rm
Phase1_VolumeRm ==
    /\ pc = "p1_rm"
    /\ \E code \in ReturnCodes : RunCmd(code)
    /\ ReportWrite(PhaseArtifact(1), <<"h2", "cmd">>)
    /\ pc' = "p1_ls"
    /\ UNCHANGED <<farVars, started, tries>>

\* lines 292-293: docker volume ls
Phase1_VolumeLs ==
    /\ pc = "p1_ls"
    /\ \E code \in ReturnCodes : RunCmd(code)
    /\ ReportWrite(PhaseArtifact(1), <<"cmd">>)
    /\ pc' = "p1_exit"
    /\ UNCHANGED <<farVars, started, tries>>

\* the end of the with-block of line 275
Phase1_Exit ==
    /\ pc = "p1_exit"
    /\ ReportExit(PhaseArtifact(1), <<>>, FALSE)
    /\ rc' = 0
    /\ pc' = "p2"
    /\ UNCHANGED <<farVars, procSpawned, started, phaseFailed, tries>>

\* ---------------------------------------------------------------- phase 2

\* phase2_reset_gastown, lines 297-302
Phase2_Open ==
    /\ pc = "p2"
    /\ Enter(2)
    /\ ReportOpen(PhaseArtifact(2), <<"p">>)
    /\ phaseFailed' = FALSE
    /\ pc' = "p2_status"
    /\ UNCHANGED <<farVars, procSpawned, rc, tries>>

\* lines 304-306: gt mayor status
Phase2_MayorStatus ==
    /\ pc = "p2_status"
    /\ \E code \in ReturnCodes : RunCmd(code)
    /\ ReportWrite(PhaseArtifact(2), <<"h2", "code">>)
    /\ pc' = "p2_stop"
    /\ UNCHANGED <<farVars, started, tries>>

\* lines 308-310: gt mayor stop
Phase2_MayorStop ==
    /\ pc = "p2_stop"
    /\ \E code \in ReturnCodes : RunCmd(code)
    /\ ReportWrite(PhaseArtifact(2), <<"h2", "cmd">>)
    /\ pc' = "p2_exit"
    /\ UNCHANGED <<farVars, started, tries>>

\* the end of the with-block of line 298
Phase2_Exit ==
    /\ pc = "p2_exit"
    /\ ReportExit(PhaseArtifact(2), <<>>, FALSE)
    /\ rc' = 0
    /\ pc' = "p3"
    /\ UNCHANGED <<farVars, procSpawned, started, phaseFailed, tries>>

\* ---------------------------------------------------------------- phase 3

\* phase3_start_otel, lines 314-315
Phase3_Open ==
    /\ pc = "p3"
    /\ Enter(3)
    /\ ReportOpen(PhaseArtifact(3), <<>>)
    /\ phaseFailed' = FALSE
    /\ pc' = "p3_up"
    /\ UNCHANGED <<farVars, procSpawned, rc, tries>>

\* lines 317-321: docker compose up -d, with a warning when it fails
Phase3_ComposeUp ==
    /\ pc = "p3_up"
    /\ \E code \in ReturnCodes :
          /\ RunCmd(code)
          /\ ReportWrite(PhaseArtifact(3),
                IF code # 0 THEN <<"h2", "cmd", "blockquote">>
                            ELSE <<"h2", "cmd">>)
    /\ tries' = 0
    /\ pc' = "p3_wait_vm"
    /\ UNCHANGED <<farVars, started>>

\* wait_for_http (lines 188-198), called at line 323: one iteration of the
\* retry loop; the endpoint answers or the request raises and is retried
Phase3_WaitVM_Try ==
    /\ pc = "p3_wait_vm"
    /\ tries < HttpRetries
    /\ \E reachable \in BOOLEAN :
          IF reachable
             THEN /\ vm_ok' = TRUE
                  /\ tries' = 0
                  /\ pc' = "p3_wait_vl"
             ELSE /\ tries' = tries + 1
                  /\ UNCHANGED <<vm_ok, pc>>
    /\ UNCHANGED <<exitCode, runVars, procVars, vl_ok, alive, mayor_ready,
                   pollVars, passVars, p8Vars, faultAt, procSpawned, started,
                   artifact, opens, closes, phaseFailed, rc>>

\* wait_for_http, lines 197-198: the retries are exhausted
Phase3_WaitVM_GiveUp ==
    /\ pc = "p3_wait_vm"
    /\ tries = HttpRetries
    /\ vm_ok' = FALSE
    /\ phaseFailed' = TRUE
    /\ tries' = 0
    /\ pc' = "p3_wait_vl"
    /\ UNCHANGED <<exitCode, runVars, procVars, vl_ok, alive, mayor_ready,
                   pollVars, passVars, p8Vars, faultAt, procSpawned, started,
                   artifact, opens, closes, rc>>

\* wait_for_http, called at line 324
Phase3_WaitVL_Try ==
    /\ pc = "p3_wait_vl"
    /\ tries < HttpRetries
    /\ \E reachable \in BOOLEAN :
          IF reachable
             THEN /\ vl_ok' = TRUE
                  /\ tries' = 0
                  /\ pc' = "p3_trace"
             ELSE /\ tries' = tries + 1
                  /\ UNCHANGED <<vl_ok, pc>>
    /\ UNCHANGED <<exitCode, runVars, procVars, vm_ok, alive, mayor_ready,
                   pollVars, passVars, p8Vars, faultAt, procSpawned, started,
                   artifact, opens, closes, phaseFailed, rc>>

Phase3_WaitVL_GiveUp ==
    /\ pc = "p3_wait_vl"
    /\ tries = HttpRetries
    /\ vl_ok' = FALSE
    /\ phaseFailed' = TRUE
    /\ tries' = 0
    /\ pc' = "p3_trace"
    /\ UNCHANGED <<exitCode, runVars, procVars, vm_ok, alive, mayor_ready,
                   pollVars, passVars, p8Vars, faultAt, procSpawned, started,
                   artifact, opens, closes, rc>>

\* lines 326-335: gastown-trace is launched in the background; after two
\* seconds poll() finds it either still running or already exited (the
\* service may exit by itself at any time: daemon records what the
\* orchestrator has done to it, alive what poll() has observed)
Phase3_LaunchTrace ==
    /\ pc = "p3_trace"
    /\ procSpawned' = TRUE
    /\ \E running \in BOOLEAN :
          /\ alive' = running
          /\ daemon' = "launched"
    /\ ReportWrite(PhaseArtifact(3), <<"h2", "p">>)
    /\ pc' = "p3_tables"
    /\ UNCHANGED <<exitCode, runVars, trace_proc, vm_ok, vl_ok, mayor_ready,
                   pollVars, passVars, p8Vars, faultAt, started, phaseFailed,
                   rc, tries>>

\* lines 337-349: the environment block and the health table
Phase3_Tables ==
    /\ pc = "p3_tables"
    /\ ReportWrite(PhaseArtifact(3), <<"h2", "code", "h2", "table">>)
    /\ pc' = "p3_exit"
    /\ UNCHANGED <<farVars, procSpawned, started, phaseFailed, rc, tries>>

\* the end of the with-block of line 315, the return of line 351 and the
\* assignment of line 741
Phase3_Exit ==
    /\ pc = "p3_exit"
    /\ ReportExit(PhaseArtifact(3), <<>>, FALSE)
    /\ trace_proc' = "handle"
    /\ rc' = 0
    /\ vm_ok' = FALSE
    /\ vl_ok' = FALSE
    /\ alive' = FALSE
    /\ pc' = "readme"
    /\ UNCHANGED <<exitCode, runVars, daemon, mayor_ready, pollVars, passVars,
                   p8Vars, faultAt, procSpawned, started, phaseFailed, tries>>

\* ----------------------------------------------------------- write_readme

\* write_readme, lines 684-686
Readme_Open ==
    /\ pc = "readme"
    /\ ReportOpen(ReadmeArtifact, <<"h2", "p">>)
    /\ pc' = "readme_body"
    /\ UNCHANGED <<farVars, procSpawned, started, phaseFailed, rc, tries>>

\* lines 687-711
Readme_Body ==
    /\ pc = "readme_body"
    /\ ReportWrite(ReadmeArtifact, <<"h2", "table", "h2", "table", "text">>)
    /\ pc' = "readme_exit"
    /\ UNCHANGED <<farVars, procSpawned, started, phaseFailed, rc, tries>>

\* the end of the with-block of line 684
Readme_Exit ==
    /\ pc = "readme_exit"
    /\ ReportExit(ReadmeArtifact, <<>>, FALSE)
    /\ pc' = "p4"
    /\ UNCHANGED <<farVars, procSpawned, started, phaseFailed, rc, tries>>

\* ---------------------------------------------------------------- phase 4

\* phase4_start_gastown, lines 355-358
Phase4_Open ==
    /\ pc = "p4"
    /\ Enter(4)
    /\ mayor_ready' = FALSE
    /\ ReportOpen(PhaseArtifact(4), <<"p">>)
    /\ phaseFailed' = FALSE
    /\ pc' = "p4_start"
    /\ UNCHANGED <<exitCode, runVars, procVars, p3Vars, pollVars, passVars,
                   p8Vars, faultAt, procSpawned, rc, tries>>

\* lines 360-365: gt mayor start
Phase4_MayorStart ==
    /\ pc = "p4_start"
    /\ \E code \in ReturnCodes : RunCmd(code)
    /\ ReportWrite(PhaseArtifact(4), <<"h2", "cmd", "h2">>)
    /\ tries' = 0
    /\ pc' = "p4_loop"
    /\ UNCHANGED <<farVars, started>>

\* lines 366-372: one iteration of the readiness loop
Phase4_PollStatus ==
    /\ pc = "p4_loop"
    /\ tries < MayorRetries
    /\ procSpawned' = TRUE
    /\ \E code \in ReturnCodes, running \in BOOLEAN :
          /\ rc' = code
          /\ IF code = 0 /\ running
                THEN /\ mayor_ready' = TRUE
                     /\ tries' = 0
                     /\ pc' = "p4_report"
                ELSE /\ tries' = tries + 1
                     /\ UNCHANGED <<mayor_ready, pc>>
    /\ UNCHANGED <<exitCode, runVars, procVars, p3Vars, pollVars, passVars,
                   p8Vars, faultAt, started, artifact, opens, closes,
                   phaseFailed>>

\* line 366: the thirty iterations are used up, the wait has timed out
Phase4_LoopEnd ==
    /\ pc = "p4_loop"
    /\ tries = MayorRetries
    /\ phaseFailed' = TRUE
    /\ tries' = 0
    /\ pc' = "p4_report"
    /\ UNCHANGED <<farVars, procSpawned, started, artifact, opens, closes, rc>>

\* lines 374-375
Phase4_Report ==
    /\ pc = "p4_report"
    /\ ReportWrite(PhaseArtifact(4),
          <<"code", IF mayor_ready THEN "status ok" ELSE "status warn">>)
    /\ pc' = "p4_return"
    /\ UNCHANGED <<farVars, procSpawned, started, phaseFailed, rc, tries>>

\* line 376: return from inside the with-block
Phase4_Return ==
    /\ pc = "p4_return"
    /\ ReportExit(PhaseArtifact(4), <<>>, FALSE)
    /\ rc' = 0
    /\ pc' = "p4_check"
    /\ UNCHANGED <<farVars, procSpawned, started, phaseFailed, tries>>

\* main, lines 745-748: a mayor that is not ready is only logged
AfterMayorAbort(ready) == IF ready THEN "p5" ELSE "exit"
AfterMayorSkip(ready) == "p6"
AfterMayor(ready) == "p5"

Main_MayorCheck ==
    /\ pc = "p4_check"
    /\ pc' = AfterMayor(mayor_ready)
    /\ mayor_ready' = FALSE
    /\ UNCHANGED <<exitCode, runVars, procVars, p3Vars, pollVars, passVars, p8Vars,
                   faultAt, procSpawned, started, artifact, opens, closes,
                   phaseFailed, rc, tries>>

\* ---------------------------------------------------------------- phase 5

\* phase5_launch_test, lines 380-381: the prompt is read before the session
\* is opened
Phase5_ReadPrompt ==
    /\ pc = "p5"
    /\ Enter(5)
    /\ phaseFailed' = FALSE
    /\ pc' = "p5_open"
    /\ UNCHANGED <<farVars, procSpawned, artifact, opens, closes, rc, tries>>

\* line 381: PROMPT_FILE.read_text() raises (the file exists but cannot be
\* read or decoded); nothing catches it, the interpreter exits with 1
Phase5_ReadPromptFault ==
    /\ pc = "p5"
    /\ Enter(5)
    /\ phaseFailed' = FALSE
    /\ faultAt' = "PROMPT_FILE"
    /\ pc' = "exit"
    /\ exitCode' = 1
    /\ UNCHANGED <<runVars, procVars, p3Vars, mayor_ready, pollVars, passVars,
                   p8Vars, procSpawned, artifact, opens, closes, rc, tries>>

\* line 383
Phase5_Open ==
    /\ pc = "p5_open"
    /\ ReportOpen(PhaseArtifact(5), <<"h2", "text", "h2">>)
    /\ pc' = "p5_nudge"
    /\ UNCHANGED <<farVars, procSpawned, started, phaseFailed, rc, tries>>

\* lines 388-390: gt nudge mayor
Phase5_Nudge ==
    /\ pc = "p5_nudge"
    /\ \E code \in ReturnCodes :
          /\ RunCmd(code)
          /\ ReportWrite(PhaseArtifact(5),
                <<"cmd", IF code = 0 THEN "status ok" ELSE "status warn">>)
    /\ pc' = "p5_exit"
    /\ UNCHANGED <<farVars, started, tries>>

\* the end of the with-block of line 383
Phase5_Exit ==
    /\ pc = "p5_exit"
    /\ ReportExit(PhaseArtifact(5), <<>>, FALSE)
    /\ rc' = 0
    /\ pc' = "p6"
    /\ UNCHANGED <<farVars, procSpawned, started, phaseFailed, tries>>

\* ---------------------------------------------------------------- phase 6

\* line 404: the loop condition of the poller
PollContinueInclusive(e, t) == e <= t
PollContinueAtLeastOnce(e, t) == e = 0 \/ e < t
PollContinue(e, t) == e < t

\* line 413: elapsed += CONVOY_POLL
NextElapsedTicks(e, p) == e + 1
NextElapsed(e, p) == e + p

\* phase6_wait_convoy, lines 394-402
Phase6_Open ==
    /\ pc = "p6"
    /\ Enter(6)
    /\ landed' = FALSE
    /\ elapsed' = 0
    /\ calls' = 0
    /\ poller' = "Polling"
    /\ listing' = NoListing
    /\ ReportOpen(PhaseArtifact(6), <<"blockquote", "h2">>)
    /\ phaseFailed' = FALSE
    /\ pc' = "p6_loop"
    /\ UNCHANGED <<exitCode, runVars, procVars, p3Vars, mayor_ready, passVars,
                   p8Vars, faultAt, procSpawned, rc, tries>>

\* what `gt convoy list --all --json` may answer during the wait: a failing
\* exit code, nothing, white space, text that is not JSON, JSON that is not
\* an array, and arrays with and without a landed convoy
L_CryptoTales == <<"T","h","e"," ","C","r","y","p","t","o"," ","T","a","l","e","s">>
L_Other == <<"O","t","h","e","r">>
L_landed_cap == <<"L","a","n","d","e","d">>
L_open == <<"o","p","e","n">>
TickListings ==
    { GtOutput(1, "json", Arr(<<Obj(Str(L_CryptoTales), Absent, Str(L_landed_cap))>>)),
      GtOutput(0, "empty", Null),
      GtOutput(0, "blank", Null),
      GtOutput(0, "garbage", Null),
      GtOutput(0, "json", Obj(Str(L_CryptoTales), Absent, Str(L_landed_cap))),
      GtOutput(0, "json", Null),
      GtOutput(0, "json", Arr(<<>>)),
      GtOutput(0, "json", Arr(<<Obj(Str(L_CryptoTales), Absent, Str(L_open))>>)),
      GtOutput(0, "json", Arr(<<Obj(Str(L_Other), Absent, Str(L_open)),
                                Obj(Str(L_CryptoTales), Absent, Str(L_landed_cap))>>)) }

\* convoy_landed() on each of these answers
TickResult == [out \in TickListings |-> convoy_landed(out)]

\* lines 404-413: one tick of the poller; convoy_landed() (lines 254-269)
\* runs `gt convoy list` and decides on what it answers
Phase6_Tick ==
    /\ pc = "p6_loop"
    /\ PollContinue(elapsed, timeout)
    /\ procSpawned' = TRUE
    /\ calls' = calls + 1
    /\ \E out \in TickListings :
          /\ listing' = out
          /\ IF TickResult[out]
                THEN /\ landed' = TRUE
                     /\ poller' = "Landed"
                     /\ ReportWrite(PhaseArtifact(6), <<"poll landed">>)
                     /\ pc' = "p6_status"
                     /\ UNCHANGED elapsed
                ELSE /\ ReportWrite(PhaseArtifact(6), <<"poll open">>)
                     /\ elapsed' = NextElapsed(elapsed, poll)
                     /\ UNCHANGED <<landed, poller, pc>>
    /\ UNCHANGED <<exitCode, runVars, procVars, p3Vars, mayor_ready, passVars,
                   p8Vars, faultAt, started, phaseFailed, rc, tries>>

\* line 404: the condition is false, the loop ends without a landing
Phase6_LoopEnd ==
    /\ pc = "p6_loop"
    /\ ~PollContinue(elapsed, timeout)
    /\ poller' = "TimedOut"
    /\ phaseFailed' = TRUE
    /\ listing' = NoListing
    /\ pc' = "p6_status"
    /\ UNCHANGED <<exitCode, runVars, procVars, p3Vars, mayor_ready, landed,
                   elapsed, calls, passVars, p8Vars, faultAt, procSpawned,
                   started, artifact, opens, closes, rc, tries>>

\* lines 415-417: gt convoy list --all shows the convoys as they are once
\* the loop is over, whatever the last tick saw (the command prints them as
\* text; listing records them in the form the ticks read); its output goes
\* to the report and is not examined
Phase6_ConvoyStatus ==
    /\ pc = "p6_status"
    /\ \E code \in ReturnCodes : RunCmd(code)
    /\ ReportWrite(PhaseArtifact(6), <<"h2", "code">>)
    /\ listing' \in TickListings
    /\ pc' = "p6_doctor"
    /\ UNCHANGED <<exitCode, runVars, procVars, p3Vars, mayor_ready, landed,
                   elapsed, calls, poller, passVars, p8Vars, faultAt, started,
                   tries>>

\* lines 419-421: gt doctor
Phase6_Doctor ==
    /\ pc = "p6_doctor"
    /\ \E code \in ReturnCodes : RunCmd(code)
    /\ ReportWrite(PhaseArtifact(6), <<"h2", "code">>)
    /\ listing' = NoListing
    /\ pc' = "p6_trail"
    /\ UNCHANGED <<exitCode, runVars, procVars, p3Vars, mayor_ready, landed,
                   elapsed, calls, poller, passVars, p8Vars, faultAt, started,
                   tries>>

\* lines 423-425: gt trail commits
Phase6_Trail ==
    /\ pc = "p6_trail"
    /\ \E code \in ReturnCodes : RunCmd(code)
    /\ ReportWrite(PhaseArtifact(6), <<"h2", "code">>)
    /\ pc' = "p6_verdict"
    /\ UNCHANGED <<farVars, started, tries>>

\* lines 427-430: the verdict written at the end of the report
VerdictAlwaysTimeout(l) == "blockquote timeout"
Verdict(l) == IF l THEN "blockquote landed" ELSE "blockquote timeout"

\* lines 427-430
Phase6_Verdict ==
    /\ pc = "p6_verdict"
    /\ ReportWrite(PhaseArtifact(6), <<Verdict(landed)>>)
    /\ pc' = "p6_exit"
    /\ UNCHANGED <<farVars, procSpawned, started, phaseFailed, rc, tries>>

\* the end of the with-block of line 398, the return of line 432 and the
\* assignment of line 751
Phase6_Exit ==
    /\ pc = "p6_exit"
    /\ ReportExit(PhaseArtifact(6), <<>>, FALSE)
    /\ m_landed' = landed
    /\ m_elapsed' = elapsed
    /\ rc' = 0
    /\ pc' = "p7"
    /\ UNCHANGED <<exitCode, runVars, procVars, p3Vars, mayor_ready, pollVars,
                   a_landed, a_elapsed, p7_errors, p8Vars, faultAt,
                   procSpawned, started, phaseFailed, tries>>

\* ---------------------------------------------------------------- phase 7

\* phase7_collect_otel, lines 436-437
Phase7_Open ==
    /\ pc = "p7"
    /\ Enter(7)
    /\ ReportOpen(PhaseArtifact(7), <<>>)
    /\ phaseFailed' = FALSE
    /\ pc' = "p7_metrics"
    /\ UNCHANGED <<farVars, procSpawned, rc, tries>>

\* an answer of the metrics endpoint with one result of value numeral
ScalarAnswer(numeral) ==
    Response("ok", VmBody("json",
        Top(Data(Arr(<<Sample(Labels, Arr(<<Str(L_ts), Str(numeral)>>))>>)))))

\* what the metrics endpoint may answer to a query of phase 7: nothing,
\* text that is not JSON, no result, one result
MetricAnswers ==
    {Response("unreachable", VmBody("empty", Null)),
     Response("ok", VmBody("garbage", Null)),
     Response("ok", VmBody("json", Top(Data(Arr(<<>>))))),
     ScalarAnswer(<<"3">>)}

\* what the log endpoint may answer to the "errors" query: nothing, an
\* empty body, two events with a blank line between them
LogAnswers ==
    {Response("unreachable", <<>>),
     Response("ok", <<>>),
     Response("ok", <<"a", "\n", "\n", "a">>)}

\* what vl_count may return for the "errors" query, and what vm_query may
\* return for a query of phase 7
VlCount == [a \in LogAnswers |-> vl_count(a)]
ErrorCounts == {VlCount[a] : a \in LogAnswers}
MetricTexts == {vm_query(a) : a \in MetricAnswers}

\* r.code(text) for the text vm_query returned (line 126)
CodeBlock(text) == IF text.t = "text" THEN <<"code">> ELSE <<>>

\* lines 439-475: the three blocks of vm_query results
Phase7_Metrics ==
    /\ pc = "p7_metrics"
    /\ \E t1, t2, t3 \in MetricTexts :
          ReportWrite(PhaseArtifact(7),
              <<"h2">> \o CodeBlock(t1) \o <<"h2">> \o CodeBlock(t2)
                  \o <<"h2">> \o CodeBlock(t3))
    /\ pc' = "p7_counts"
    /\ UNCHANGED <<farVars, procSpawned, started, phaseFailed, rc, tries>>

\* lines 477-496: the table of vl_count results, of which the row of the
\* "errors" query is kept
Phase7_EventCounts ==
    /\ pc = "p7_counts"
    /\ \E e \in ErrorCounts : p7_errors' = e
    /\ ReportWrite(PhaseArtifact(7), <<"h2", "table">>)
    /\ pc' = "p7_explore"
    /\ UNCHANGED <<exitCode, runVars, procVars, p3Vars, mayor_ready, pollVars,
                   m_landed, m_elapsed, a_landed, a_elapsed, p8Vars, faultAt,
                   procSpawned, started, phaseFailed, rc, tries>>

\* lines 498-510
Phase7_Explore ==
    /\ pc = "p7_explore"
    /\ ReportWrite(PhaseArtifact(7), <<"h2", "table">>)
    /\ pc' = "p7_exit"
    /\ UNCHANGED <<farVars, procSpawned, started, phaseFailed, rc, tries>>

\* the end of the with-block of line 437
Phase7_Exit ==
    /\ pc = "p7_exit"
    /\ ReportExit(PhaseArtifact(7), <<>>, FALSE)
    /\ pc' = "p8"
    /\ UNCHANGED <<farVars, procSpawned, started, phaseFailed, rc, tries>>

\* ---------------------------------------------------------------- phase 8

\* what vm_scalar may return in phase 8, given what the metrics endpoint
\* may answer
\* sum(gastown_polecat_spawns_total): no answer, 2.5, 3 and 5
SpawnAnswers ==
    {Response("unreachable", VmBody("empty", Null)),
     ScalarAnswer(<<"2",".","5">>), ScalarAnswer(<<"3">>), ScalarAnswer(<<"5">>)}
SpawnCounts == {vm_scalar(a).v : a \in SpawnAnswers}
\* sum(bd_ai_input_tokens_total): no answer, 50000, 100000 and 150000
TokenAnswers ==
    {Response("unreachable", VmBody("empty", Null)),
     ScalarAnswer(<<"5","0","0","0","0">>),
     ScalarAnswer(<<"1","0","0","0","0","0">>),
     ScalarAnswer(<<"1","5","0","0","0","0">>)}
TokenCounts == {vm_scalar(a).v : a \in TokenAnswers}
\* vm_scalar on each of these answers
VmScalar == [a \in SpawnAnswers \cup TokenAnswers |-> vm_scalar(a).v]

\* str(n) for an int n >= 0
RECURSIVE StrNat(_)
StrNat(n) ==
    IF n < 10 THEN <<Digits[n + 1]>>
    ELSE StrNat(n \div 10) \o <<Digits[(n % 10) + 1]>>

\* line 540: str(errors) if errors >= 0 else "?"
ErrorsCellNoSentinel(e) == IF e >= 0 THEN StrNat(e) ELSE <<"-", "1">>
ErrorsCell(e) == IF e >= 0 THEN StrNat(e) ELSE <<"?">>

\* the conditions of the four conditional rules, lines 548, 564, 574-586, 593
ConvoyRuleDropped(l) == FALSE
ConvoyRule(l) == ~l
ErrorRule(e) == e > 0
TokenRuleInclusive(t) == t >= TokenThreshold * Scale
TokenRule(t) == t > TokenThreshold * Scale

\* r.h3(f"{n}. ..."); n += 1  -- when the rule's condition holds
EmitNoIncrement(st, cond, kind) ==
    IF cond THEN [n |-> st.n, out |-> Append(st.out, <<st.n, kind>>)]
            ELSE st
Emit(st, cond, kind) ==
    IF cond THEN [n |-> st.n + 1, out |-> Append(st.out, <<st.n, kind>>)]
            ELSE st

\* lines 573-590: spawns == 0, elif spawns != 3 with the two phrasings
SpawnKind(spawns) ==
    IF spawns = 0 THEN "no polecats"
    ELSE IF spawns < ExpectedSpawns THEN "polecat count under"
    ELSE "polecat count over"

\* lines 544-662: the rules in their order, n starting at 1; l, e, p and t
\* are landed, errors, polecat_spawns and input_tokens
Recommendations(l, e, p, t) ==
    LET spawns == Trunc(p)
        s0 == [n |-> 1, out |-> <<>>]
        s1 == Emit(s0, ConvoyRule(l), "convoy did not land")
        s2 == Emit(s1, ErrorRule(e), "errors detected")
        s3 == Emit(s2, spawns = 0 \/ spawns # ExpectedSpawns, SpawnKind(spawns))
        s4 == Emit(s3, TokenRule(t), "high input tokens")
        s5 == Emit(s4, TRUE, "verify deliverables")
        s6 == Emit(s5, TRUE, "otlp coverage")
        s7 == Emit(s6, TRUE, "explore traces")
        s8 == Emit(s7, TRUE, "grafana dashboards")
    IN  s8.out

\* line 521: errors is what vl_count returns now, not the count that
\* phase 7 put in its table
ErrorsOfPhase7(count, reported) == reported
ErrorsOf(count, reported) == count

\* phase8_recommendations, lines 513-526: the parameters, then the queries
\* to the telemetry backends
Phase8_Query ==
    /\ pc = "p8"
    /\ Enter(8)
    /\ a_landed' = m_landed
    /\ a_elapsed' = m_elapsed
    /\ \E a \in LogAnswers, s \in SpawnAnswers, t \in TokenAnswers :
          /\ log_answer' = a
          /\ metric_answer' = [spawns |-> s, tokens |-> t]
          /\ errors' = ErrorsOf(VlCount[a], p7_errors)
          /\ polecat_spawns' = VmScalar[s]
          /\ input_tokens' = VmScalar[t]
    /\ phaseFailed' = FALSE
    /\ pc' = "p8_open"
    /\ UNCHANGED <<exitCode, runVars, procVars, p3Vars, mayor_ready, pollVars,
                   m_landed, m_elapsed, p7_errors, recs, summary_errors,
                   faultAt, procSpawned, artifact, opens, closes, rc, tries>>

\* lines 528-542: the session and the run summary
Phase8_Open ==
    /\ pc = "p8_open"
    /\ ReportOpen(PhaseArtifact(8), <<"h2", "table">>)
    /\ summary_errors' = ErrorsCell(errors)
    /\ pc' = "p8_recs"
    /\ UNCHANGED <<exitCode, runVars, procVars, p3Vars, mayor_ready, pollVars,
                   passVars, log_answer, metric_answer, errors,
                   polecat_spawns, input_tokens, recs, faultAt, procSpawned,
                   started, phaseFailed, rc, tries>>

\* lines 544-664: the recommendations and the footer
Phase8_Recommend ==
    /\ pc = "p8_recs"
    /\ recs' = Recommendations(a_landed, errors, polecat_spawns, input_tokens)
    /\ ReportWrite(PhaseArtifact(8),
          <<"h2">> \o [k \in 1..Len(recs') |-> "h3"] \o <<"text">>)
    /\ pc' = "p8_exit"
    /\ UNCHANGED <<exitCode, runVars, procVars, p3Vars, mayor_ready, pollVars,
                   passVars, log_answer, metric_answer, summary_errors,
                   errors, polecat_spawns, input_tokens, faultAt, procSpawned,
                   started, phaseFailed, rc, tries>>

\* the end of the with-block of line 528 and the return of the function,
\* with which its locals are gone
Phase8_Exit ==
    /\ pc = "p8_exit"
    /\ ReportExit(PhaseArtifact(8), <<>>, FALSE)
    /\ log_answer' = NoAnswer
    /\ metric_answer' = NoAnswer
    /\ summary_errors' = NoCell
    /\ errors' = 0
    /\ polecat_spawns' = 0
    /\ input_tokens' = 0
    /\ pc' = "summary"
    /\ UNCHANGED <<exitCode, runVars, procVars, p3Vars, mayor_ready, pollVars,
                   passVars, recs, faultAt, procSpawned, started, phaseFailed,
                   rc, tries>>

\* main, lines 755-775: the final summary; main returns, the exit status is 0
Main_Summary ==
    /\ pc = "summary"
    /\ pc' = "exit"
    /\ exitCode' = 0
    /\ UNCHANGED <<runVars, procVars, p3Vars, mayor_ready, pollVars, passVars,
                   p8Vars, faultAt, procSpawned, started, artifact, opens,
                   closes, phaseFailed, rc, tries>>

\* ------------------------------------------------------------------ faults

\* the positions inside a with-block at which the next step writes to the
\* report or runs a tool, and so may raise
BodyPoints ==
    {"p1_down", "p1_rm", "p1_ls", "p2_status", "p2_stop",
     "p3_up", "p3_trace", "p3_tables", "readme_body",
     "p4_start", "p4_loop", "p4_report", "p5_nudge",
     "p6_loop", "p6_status", "p6_doctor", "p6_trail", "p6_verdict",
     "p7_metrics", "p7_counts", "p7_explore", "p8_recs"}

\* An exception is raised inside a with-block: Report.__exit__ (lines
\* 155-156) closes the session with ok = False and returns None, so the
\* exception propagates; main (lines 737-753) catches nothing and the
\* interpreter exits with status 1.
Fault ==
    /\ pc \in BodyPoints
    /\ \E a \in Artifacts :
          /\ IsOpen(a)
          /\ ReportExit(a, <<>>, TRUE)
          /\ faultAt' = a
    /\ pc' = "exit"
    /\ exitCode' = 1
    /\ UNCHANGED <<runVars, procVars, p3Vars, mayor_ready, pollVars, passVars,
                   p8Vars, procSpawned, started, phaseFailed, rc, tries>>

\* ---------------------------------------------------------------- signals

\* _cleanup (lines 729-732): the message names the pid of main's trace_proc,
\* or "?" while main's trace_proc is None
CleanupMessage(proc) == IF proc = "handle" THEN "PID handle" ELSE "PID ?"

\* what _cleanup does to the daemon: nothing
CleanupKillsDaemon(d) == IF d = "launched" THEN "killed" ELSE d
CleanupDaemon(d) == d

\* SIGINT or SIGTERM is delivered once signal.signal has registered
\* _cleanup (lines 734-735): the handler runs in the main thread, between
\* two steps of main, and prints its message
Signal ==
    /\ handlers
    /\ exitCode = -1
    /\ in_cleanup = "none"
    /\ in_cleanup' = CleanupMessage(trace_proc)
    /\ daemon' = CleanupDaemon(daemon)
    /\ UNCHANGED <<pc, exitCode, errors_pre, reportsDir, latestLink, handlers,
                   timeout, poll, procSpawned, trace_proc, started, artifact,
                   opens, closes, phaseFailed, faultAt, rc, tries, p3Vars,
                   mayor_ready, pollVars, passVars, p8Vars, fnVars>>

\* where main goes on after _cleanup: the body of lines 729-732 holds no
\* raise and no sys.exit, so at the position it was interrupted at
CleanupResumeAborts(p) == "exit"
CleanupResume(p) == p

\* _cleanup returns: main goes on where it was
CleanupReturn ==
    /\ in_cleanup # "none"
    /\ in_cleanup' = "none"
    /\ pc' = CleanupResume(pc)
    /\ UNCHANGED <<mainVars, fnVars>>

\* main is not inside the signal handler
Running == in_cleanup = "none"

\* the positions of control inside the with-block of the session on a
WithBlock(a) ==
    CASE a = PhaseArtifact(1) -> {"p1_down", "p1_rm", "p1_ls", "p1_exit"}
      [] a = PhaseArtifact(2) -> {"p2_status", "p2_stop", "p2_exit"}
      [] a = PhaseArtifact(3) -> {"p3_up", "p3_wait_vm", "p3_wait_vl",
                                  "p3_trace", "p3_tables", "p3_exit"}
      [] a = ReadmeArtifact   -> {"readme_body", "readme_exit"}
      [] a = PhaseArtifact(4) -> {"p4_start", "p4_loop", "p4_report",
                                  "p4_return"}
      [] a = PhaseArtifact(5) -> {"p5_nudge", "p5_exit"}
      [] a = PhaseArtifact(6) -> {"p6_loop", "p6_status", "p6_doctor",
                                  "p6_trail", "p6_verdict", "p6_exit"}
      [] a = PhaseArtifact(7) -> {"p7_metrics", "p7_counts", "p7_explore",
                                  "p7_exit"}
      [] a = PhaseArtifact(8) -> {"p8_recs", "p8_exit"}

\* ------------------------------------------------------------------- Next

\* the steps of the program itself
Step ==
    \/ Preflight
    \/ MainSetup
    \/ InstallHandlers
    \/ Phase1_Open
    \/ Phase1_ComposeDown
    \/ Phase1_VolumeRm
    \/ Phase1_VolumeLs
    \/ Phase1_Exit
    \/ Phase2_Open
    \/ Phase2_MayorStatus
    \/ Phase2_MayorStop
    \/ Phase2_Exit
    \/ Phase3_Open
    \/ Phase3_ComposeUp
    \/ Phase3_WaitVM_Try
    \/ Phase3_WaitVM_GiveUp
    \/ Phase3_WaitVL_Try
    \/ Phase3_WaitVL_GiveUp
    \/ Phase3_LaunchTrace
    \/ Phase3_Tables
    \/ Phase3_Exit
    \/ Readme_Open
    \/ Readme_Body
    \/ Readme_Exit
    \/ Phase4_Open
    \/ Phase4_MayorStart
    \/ Phase4_PollStatus
    \/ Phase4_LoopEnd
    \/ Phase4_Report
    \/ Phase4_Return
    \/ Main_MayorCheck
    \/ Phase5_ReadPrompt
    \/ Phase5_Open
    \/ Phase5_Nudge
    \/ Phase5_Exit
    \/ Phase6_Open
    \/ Phase6_Tick
    \/ Phase6_LoopEnd
    \/ Phase6_ConvoyStatus
    \/ Phase6_Doctor
    \/ Phase6_Trail
    \/ Phase6_Verdict
    \/ Phase6_Exit
    \/ Phase7_Open
    \/ Phase7_Metrics
    \/ Phase7_EventCounts
    \/ Phase7_Explore
    \/ Phase7_Exit
    \/ Phase8_Query
    \/ Phase8_Open
    \/ Phase8_Recommend
    \/ Phase8_Exit
    \/ Main_Summary

Next ==
    \/ Running /\ Step
    \/ Running /\ Phase5_ReadPromptFault
    \/ Running /\ Fault
    \/ Signal
    \/ CleanupReturn

\* every behaviour of the program, faults and signals included
Spec == Init /\ [][Next]_vars

\* the behaviours in which no step raises: the tools answer with any exit
\* code, the endpoints may be unreachable, the waits may time out.  The
\* single thread of control always takes its next step.
FairSpec == Init /\ [][Step]_vars /\ WF_vars(Step)

\* the behaviours in which no step raises and signals are delivered, any
\* number of them, at any position after line 735.  The handler always
\* returns; main takes its next step between two deliveries, however many
\* signals arrive.  The run waits with no timeout or with the longest one,
\* at the longest interval.
SigInit ==
    /\ Init
    /\ timeout \in {0, MaxTimeout}
    /\ poll = MaxPoll

SigNext ==
    \/ Running /\ Step
    \/ Signal
    \/ CleanupReturn

SigSpec ==
    /\ SigInit
    /\ [][SigNext]_vars
    /\ SF_vars(Running /\ Step)
    /\ WF_vars(CleanupReturn)

\* ------------------------------------------------ helpers called on their own

\* Largest number of elements of a convoy listing explored.
MaxItems == 2

L_CRY == <<"C","R","Y">>
L_pto == <<"p","t","o">>
L_closed == <<"c","l","o","s","e","d">>

\* the elements a listing is built from: a target and another convoy in
\* every status; a convoy whose title holds half of a target's name, with
\* and without the other half as its name; an object without title; an
\* object whose title is null; and one element that is not an object
FieldTitles == {Str(L_CryptoTales), Str(L_Other)}
FieldNames == {Absent, Str(L_pto)}
FieldStatuses == {Absent, Null, Str(L_landed_cap), Str(L_closed), Str(L_open)}
Elements ==
    {Obj(a, Absent, st) : a \in FieldTitles, st \in FieldStatuses}
        \cup {Obj(Str(L_CRY), b, Str(L_closed)) : b \in FieldNames}
        \cup {Obj(Str(L_CRY), Str(L_pto), Str(L_open)),
              Obj(Absent, Absent, Str(L_landed_cap)),
              Obj(Null, Absent, Str(L_closed)),
              Num}

\* all sequences over S of length at most n
SeqsUpTo(S, n) == UNION {[1..k -> S] : k \in 0..n}

\* the arguments convoy_landed is called on
ConvoyInputs ==
    {GtOutput(0, "json", Arr(items)) : items \in SeqsUpTo(Elements, MaxItems)}
        \cup TickListings

\* Largest length of a response body explored, in characters.
MaxBody == 4

\* the answers of the log endpoint: lines of "a", blanks and line ends
LogBodies == SeqsUpTo({"a", " ", "\n"}, MaxBody)
LogResponses ==
    {Response(t, <<>>) : t \in Transports \ {"ok"}}
        \cup {Response("ok", b) : b \in LogBodies}

\* Largest number of results in an answer of the metrics endpoint explored.
MaxSamples == 2

\* the elements of a result array: objects with labels whose value is
\* absent, null, too short, or a pair with a numeral, a non-numeral, NaN or
\* a JSON number; objects whose metric is absent or null; and a bare number
SampleMetrics == {Absent, Null}
SampleValues ==
    {Absent, Null, Arr(<<Str(L_ts)>>),
     Arr(<<Str(L_ts), Str(L_42_5)>>), Arr(<<Str(L_ts), Str(S_na)>>),
     Arr(<<Str(L_ts), Str(L_NaN)>>), Arr(<<Str(L_ts), NumV(30)>>)}
Samples ==
    {Sample(Labels, v) : v \in SampleValues}
        \cup {Sample(m, Arr(<<Str(L_ts), Str(L_42_5)>>)) : m \in SampleMetrics}
        \cup {NumV(10)}

\* the JSON documents the metrics endpoint may answer with
VmDocs ==
    {Null, Arr(<<>>), NumV(10), Top(Absent), Top(Null), Top(Arr(<<>>)),
     Top(Data(Absent)), Top(Data(Null)), Top(Data(NumV(10)))}
        \cup {Top(Data(Arr(items))) : items \in SeqsUpTo(Samples, MaxSamples)}

VmResponses ==
    {Response(t, VmBody("empty", Null)) : t \in Transports \ {"ok"}}
        \cup {Response("ok", VmBody("empty", Null)),
              Response("ok", VmBody("garbage", Null))}
        \cup {Response("ok", VmBody("json", d)) : d \in VmDocs}

\* Largest number of headers of a table explored.
MaxCols == 2
\* Largest number of rows of a table explored.
MaxRows == 2

\* the cells of a table: the empty string and a string of two characters
TableCells == {<<>>, <<"x", "x">>}
\* the rows of a table of n headers: every row of n cells, the row of empty
\* cells that is one cell short, and the row that is one cell long, whose
\* last cell is not empty
TableRows(n) ==
    [1..n -> TableCells]
        \cup {[i \in 1..(n + 1) |-> IF i <= n THEN <<>> ELSE <<"x", "x">>]}
        \cup (IF n > 0 THEN {[i \in 1..(n - 1) |-> <<>>]} ELSE {})
TableInputs ==
    UNION {{[headers |-> h, rows |-> rs] :
                h \in [1..n -> TableCells],
                rs \in SeqsUpTo(TableRows(n), MaxRows)} : n \in 0..MaxCols}

FnInputs ==
    {[f |-> "table", arg |-> a] : a \in TableInputs} \cup
    {[f |-> "convoy_landed", arg |-> out] : out \in ConvoyInputs}
        \cup {[f |-> "vl_count", arg |-> resp] : resp \in LogResponses}
        \cup {[f |-> "vm_scalar", arg |-> resp] : resp \in VmResponses}
        \cup {[f |-> "vm_query", arg |-> resp] : resp \in VmResponses}

\* a helper is about to be called on an argument drawn from FnInputs
FnInit ==
    /\ pc = "call"
    /\ Fresh
    /\ timeout = 0
    /\ poll = 1
    /\ fn_in \in FnInputs
    /\ fn_out = NoCall

\* convoy_landed() (lines 254-269) called on fn_in.arg
Call_convoy_landed ==
    /\ pc = "call"
    /\ fn_in.f = "convoy_landed"
    /\ fn_out' = [t |-> "bool", v |-> convoy_landed(fn_in.arg)]
    /\ pc' = "returned"
    /\ UNCHANGED <<mainVars, in_cleanup, fn_in>>

\* vl_count() (lines 245-250) called while the log endpoint does fn_in.arg
Call_vl_count ==
    /\ pc = "call"
    /\ fn_in.f = "vl_count"
    /\ fn_out' = [t |-> "int", v |-> vl_count(fn_in.arg)]
    /\ pc' = "returned"
    /\ UNCHANGED <<mainVars, in_cleanup, fn_in>>

\* vm_scalar() (lines 233-242) called while the metrics endpoint does
\* fn_in.arg
Call_vm_scalar ==
    /\ pc = "call"
    /\ fn_in.f = "vm_scalar"
    /\ fn_out' = vm_scalar(fn_in.arg)
    /\ pc' = "returned"
    /\ UNCHANGED <<mainVars, in_cleanup, fn_in>>

\* vm_query() (lines 211-230) called while the metrics endpoint does
\* fn_in.arg
Call_vm_query ==
    /\ pc = "call"
    /\ fn_in.f = "vm_query"
    /\ fn_out' = vm_query(fn_in.arg)
    /\ pc' = "returned"
    /\ UNCHANGED <<mainVars, in_cleanup, fn_in>>

\* Report.table() (lines 132-141) called on fn_in.arg
Call_table ==
    /\ pc = "call"
    /\ fn_in.f = "table"
    /\ fn_out' = table(fn_in.arg.headers, fn_in.arg.rows)
    /\ pc' = "returned"
    /\ UNCHANGED <<mainVars, in_cleanup, fn_in>>

FnNext ==
    \/ Call_table
    \/ Call_convoy_landed
    \/ Call_vl_count
    \/ Call_vm_scalar
    \/ Call_vm_query

FnSpec == FnInit /\ [][FnNext]_vars

\* ----------------------------------------------------------------- claims

\* the two labels Report.close can give the closing status line
ClosingMarkers == {"Completed", "Phase failed"}

LastWrite(a) == artifact[a][Len(artifact[a])]

\* C1: every report session that is opened is closed exactly once, and the
\* last thing written to its artifact is the closing status line with the
\* completed or the failed marker -- after a normal end of the phase body,
\* after the early return of phase 4 and after a fault raised in the body.
C1_SessionClosedOnce ==
    \A a \in Artifacts :
        /\ closes[a] <= 1
        /\ closes[a] <= opens[a]
        /\ (opens[a] > 0 /\ pc \notin WithBlock(a)) => closes[a] = 1
        /\ closes[a] = 1 => LastWrite(a) \in ClosingMarkers

\* a run in which phases 1 to 5 ended normally (phase 4 by its early return)
\* and a fault was raised in the body of phase 6
C1_Witness ==
    /\ faultAt = PhaseArtifact(6)
    /\ closes[PhaseArtifact(4)] = 1
    /\ LastWrite(PhaseArtifact(4)) = "Completed"
    /\ closes[PhaseArtifact(6)] = 1
    /\ LastWrite(PhaseArtifact(6)) = "Phase failed"
    /\ Len(artifact[PhaseArtifact(6)]) > 4

\* C2: once preflight has passed, whatever exit codes the tools return,
\* whether or not the health endpoints answer, the mayor gets ready or the
\* convoy lands, every phase 1..8 is executed, and none more than once.
C2_AllPhasesRunOnce ==
    /\ [](\A i \in Phases : started[i] <= 1)
    /\ (pc = "setup") ~> (pc = "exit" /\ \A i \in Phases : started[i] = 1)

Contains(a, tok) == \E k \in 1..Len(artifact[a]) : artifact[a][k] = tok

\* a run that reached phase 8 after docker compose up failed, the mayor did
\* not get ready, the nudge failed and the convoy wait timed out
C2_Witness ==
    /\ started[8] = 1
    /\ Contains(PhaseArtifact(3), "blockquote")
    /\ Contains(PhaseArtifact(4), "status warn")
    /\ Contains(PhaseArtifact(5), "status warn")
    /\ poller = "TimedOut"

\* the phase entered last
RunningPhase == CHOOSE i \in Phases :
                    started[i] > 0 /\ \A j \in Phases : started[j] > 0 => j <= i

\* C3: a phase in which a tool returned a nonzero exit code, or whose wait
\* condition timed out, ends its report with the 'Phase failed' status line
\* and not with 'Completed'.
C3_FailedPhaseMarkedFailed ==
    \A i \in Phases :
        (started[i] > 0 /\ RunningPhase = i /\ phaseFailed
            /\ closes[PhaseArtifact(i)] = 1)
        => LastWrite(PhaseArtifact(i)) = "Phase failed"

\* the artifact of the phase in which the fault was raised
FaultArtifact == IF faultAt = "PROMPT_FILE" THEN PhaseArtifact(5) ELSE faultAt

\* C4: a fault raised in a phase body does not abort the sequencer: the
\* session of that phase is closed as failed and the run does not end before
\* every later phase has run.
C4_FaultDoesNotAbortRun ==
    faultAt # "none" =>
        /\ closes[FaultArtifact] = 1
        /\ LastWrite(FaultArtifact) = "Phase failed"
        /\ pc = "exit" => \A i \in Phases : started[i] = 1

\* C5: the process exits nonzero only when preflight fails; when preflight
\* passes the run completes phase 8 and exits zero.
C5_ExitZeroUnlessPreflightFails ==
    (pc = "exit" /\ errors_pre = {}) =>
        /\ exitCode = 0
        /\ closes[PhaseArtifact(8)] = 1

\* C6: when a prerequisite is missing the process exits with status 1 and
\* nothing else has happened: no phase was started, no report directory or
\* artifact was created, the 'latest' alias was not repointed, no signal
\* handler was installed and no external process was spawned.
C6_PreflightFailureIsFatal ==
    errors_pre # {} =>
        /\ pc = "exit"
        /\ exitCode = 1
        /\ \A i \in Phases : started[i] = 0
        /\ \A a \in Artifacts : opens[a] = 0 /\ artifact[a] = <<>>
        /\ ~reportsDir
        /\ ~latestLink
        /\ ~handlers
        /\ ~procSpawned
        /\ daemon = "none"

\* the only thing missing is the trace binary
C6_Witness ==
    /\ errors_pre = {"TRACE_BIN"}
    /\ pc = "exit"

\* C7: the phases run strictly in the order 1..8, each at most once and one
\* at a time: phase i+1 is entered only after phase i was entered and its
\* one session was opened and closed; a phase opens at most one session, on
\* its own artifact, and every phase of a completed run has opened exactly
\* one.
C7_StrictSequence ==
    /\ \A i \in Phases :
          /\ started[i] <= 1
          /\ opens[PhaseArtifact(i)] <= started[i]
    /\ \A i \in 1..7 :
          started[i + 1] > 0 =>
              /\ started[i] = 1
              /\ opens[PhaseArtifact(i)] = 1
              /\ closes[PhaseArtifact(i)] = 1
    /\ Cardinality({a \in Artifacts : IsOpen(a)}) <= 1
    /\ \A i, j \in Phases : i # j => PhaseArtifact(i) # PhaseArtifact(j)
    /\ (pc = "exit" /\ exitCode = 0) =>
          \A i \in Phases : opens[PhaseArtifact(i)] = 1

\* phase 8 is in its session while the seven sessions before it are closed
C7_Witness ==
    /\ pc = "p8_recs"
    /\ IsOpen(PhaseArtifact(8))
    /\ \A i \in 1..7 : closes[PhaseArtifact(i)] = 1

\* C8: when the predicate is false on its first k calls and true on call
\* k+1, with timeout > k*p, the poller reports landed with elapsed = k*p:
\* it does not time out while k*p < timeout, and when it lands after k
\* unsuccessful calls its elapsed is k*p.
C8_LandedAfterKTicks ==
    /\ poller = "Polling" => (~landed /\ elapsed = calls * poll)
    /\ poller = "TimedOut" => (~landed /\ calls * poll >= timeout)
    /\ poller = "Landed" =>
          /\ landed
          /\ elapsed = (calls - 1) * poll
          /\ timeout > (calls - 1) * poll

\* landed on the second call with a poll interval of 2
C8_Witness ==
    /\ poller = "Landed"
    /\ calls = 2
    /\ poll = 2
    /\ elapsed = 2
    /\ m_landed /\ m_elapsed = 2

\* C9: when the predicate never returns true the poller reports landed =
\* false with elapsed = the timeout rounded up to the next multiple of the
\* poll interval, for every timeout >= 0.
C9_TimedOutElapsed ==
    (poller = "TimedOut" /\ timeout >= 0) =>
        /\ ~landed
        /\ elapsed % poll = 0
        /\ elapsed >= timeout
        /\ elapsed - poll < timeout

\* timeout 3 and poll interval 2: timed out at 4
C9_Witness ==
    /\ poller = "TimedOut"
    /\ timeout = 3
    /\ poll = 2
    /\ elapsed = 4
    /\ pc = "p7"

\* C10: a timed-out poller is an ordinary outcome: phases 7 and 8 still run,
\* phase 8 receives the (landed, elapsed) pair phase 6 ended with, and the
\* recommendation list starts with 'convoy did not land', numbered 1.
C10_TimeoutIsOrdinary ==
    /\ [](started[8] = 1 /\ ~landed => (~a_landed /\ a_elapsed = elapsed))
    /\ [](recs # <<>> /\ ~landed => recs[1] = <<1, "convoy did not land">>)
    /\ (pc = "p7" /\ ~landed)
          ~> (started[7] = 1 /\ started[8] = 1 /\ recs # <<>>)

\* a completed run whose poller timed out at 4 seconds
C10_Witness ==
    /\ pc = "exit"
    /\ poller = "TimedOut"
    /\ ~a_landed /\ a_elapsed = 4
    /\ recs[1] = <<1, "convoy did not land">>
    /\ closes[PhaseArtifact(7)] = 1

\* the listing is an array of objects whose title, name and status are
\* strings or absent, as the exit code 0 answer of the listing command
WellFormedListing(out) ==
    /\ out.rc = 0
    /\ out.form = "json"
    /\ out.doc.t = "array"
    /\ \A i \in DOMAIN out.doc.items :
          LET c == out.doc.items[i]
          IN /\ c.t = "object"
             /\ \A k \in {"title", "name", "status"} : c[k].t \in {"str", "absent"}

\* the text of a field, an absent field being the empty string
FieldText(f) == IF f.t = "str" THEN f.v ELSE <<>>

\* the element names a target and is in a terminal status
TargetLanded(c) ==
    LET text == Lower(FieldText(c.title) \o FieldText(c.name))
    IN /\ \E target \in {S_crypto, S_tales} : Contains_str(target, text)
       /\ Lower(FieldText(c.status)) \in {S_closed, S_landed}

\* C11: on a listing that is an array of objects with string or absent
\* title, name and status, convoy_landed returns true if and only if some
\* element's lowercased title+name contains "crypto" or "tales" and the
\* lowercased status of that same element is "closed" or "landed".
C11_LandedIffTargetInTerminalStatus ==
    (pc = "returned" /\ fn_in.f = "convoy_landed" /\ WellFormedListing(fn_in.arg))
        => (fn_out.v = (\E i \in DOMAIN fn_in.arg.doc.items :
                            TargetLanded(fn_in.arg.doc.items[i])))

\* a listing of two convoys: the first is another convoy that is open, the
\* second names the target across title and name and is closed
C11_Witness ==
    /\ pc = "returned"
    /\ fn_in.f = "convoy_landed"
    /\ fn_in.arg = GtOutput(0, "json",
                       Arr(<<Obj(Str(L_Other), Absent, Str(L_open)),
                             Obj(Str(L_CRY), Str(L_pto), Str(L_closed))>>))
    /\ fn_out.v = TRUE

\* the evaluation of the predicate fails on this answer: a nonzero exit
\* code, no output, output that is not JSON, or JSON that is not an array
PredicateFailure(out) ==
    \/ out.rc # 0
    \/ out.form \in {"empty", "blank", "garbage"}
    \/ out.form = "json" /\ out.doc.t # "array"

\* C12: a tick of the poller whose listing fails to evaluate (nonzero exit
\* code, empty or unparsable output, JSON that is not an array) is one more
\* unsuccessful tick: convoy_landed returned false, nothing was raised, the
\* poller is still polling and the wait went on by one interval.
C12_PredicateFailureIsUnsuccessfulTick ==
    [][(pc = "p6_loop" /\ calls' = calls + 1 /\ PredicateFailure(listing'))
          => /\ landed' = FALSE
             /\ poller' = "Polling"
             /\ pc' = "p6_loop"
             /\ elapsed' = elapsed + poll
             /\ LastWrite(PhaseArtifact(6))' = "poll open"
             /\ faultAt' = "none"
             /\ exitCode' = -1]_vars

\* the second tick got JSON whose top level is an object, and the poller
\* goes on polling
C12_Witness ==
    /\ pc = "p6_loop"
    /\ calls = 2
    /\ listing.rc = 0 /\ listing.form = "json" /\ listing.doc.t = "object"
    /\ poller = "Polling"
    /\ ~landed
    /\ elapsed = 2 * poll

\* the place of a recommendation in the rule order of phase 8
RuleRank(kind) ==
    CASE kind = "convoy did not land" -> 1
      [] kind = "errors detected" -> 2
      [] kind \in {"no polecats", "polecat count under", "polecat count over"} -> 3
      [] kind = "high input tokens" -> 4
      [] kind = "verify deliverables" -> 5
      [] kind = "otlp coverage" -> 6
      [] kind = "explore traces" -> 7
      [] kind = "grafana dashboards" -> 8

\* the recommendations that no rule guards, in their order
Unconditional ==
    <<"verify deliverables", "otlp coverage", "explore traces", "grafana dashboards">>

\* C13: the recommendations phase 8 emits are numbered 1..m without gap or
\* repeat, follow the rule order (not landed, errors, spawn count, token
\* usage, then the four unconditional ones), end with the four
\* unconditional ones, and 4 <= m <= 8.
C13_NumberedInRuleOrder ==
    pc = "p8_exit" =>
        LET m == Len(recs)
        IN /\ m >= Len(Unconditional) /\ m <= 8
           /\ \A i \in 1..m : recs[i][1] = i
           /\ \A i, j \in 1..m : i < j => RuleRank(recs[i][2]) < RuleRank(recs[j][2])
           /\ \A k \in 1..Len(Unconditional) :
                 recs[m - Len(Unconditional) + k][2] = Unconditional[k]

\* the convoy landed and errors were found: the first rule contributes
\* nothing, the numbering starts at the error recommendation
C13_Witness ==
    /\ pc = "p8_exit"
    /\ a_landed
    /\ errors = 2
    /\ Len(recs) = 7
    /\ recs[1] = <<1, "errors detected">>
    /\ recs[3] = <<3, "high input tokens">>

\* kind is among the recommendations emitted
Has(kind) == \E i \in DOMAIN recs : recs[i][2] = kind

\* C14: each conditional recommendation is emitted exactly when its rule's
\* condition holds: not landed; errors > 0; spawn count 0, else spawn count
\* under 3, else over 3, never two of these; input tokens > 100000 and not
\* at 100000.  With landed false, 2 errors, no spawn and 50000 tokens there
\* are 7 items without the token one; with landed true, no error, 3 spawns
\* and 150000 tokens there are exactly 5.
C14_RuleEmittedIffCondition ==
    pc = "p8_exit" =>
        LET spawnCount == Trunc(polecat_spawns)
        IN /\ Has("convoy did not land") <=> ~a_landed
           /\ Has("errors detected") <=> errors > 0
           /\ Has("no polecats") <=> spawnCount = 0
           /\ Has("polecat count under") <=> (spawnCount # 0 /\ spawnCount < 3)
           /\ Has("polecat count over") <=> spawnCount > 3
           /\ Cardinality({k \in {"no polecats", "polecat count under",
                                  "polecat count over"} : Has(k)}) <= 1
           /\ Has("high input tokens") <=> input_tokens > 100000 * Scale
           /\ (~a_landed /\ errors = 2 /\ spawnCount = 0
                  /\ input_tokens = 50000 * Scale)
                 => /\ Len(recs) = 7
                    /\ ~Has("high input tokens")
                    /\ recs[1][2] = "convoy did not land"
                    /\ recs[2][2] = "errors detected"
                    /\ recs[3][2] = "no polecats"
           /\ (a_landed /\ errors = 0 /\ spawnCount = 3
                  /\ input_tokens = 150000 * Scale)
                 => /\ Len(recs) = 5
                    /\ recs[1][2] = "high input tokens"

\* the input tokens are exactly at the threshold and 2.5 polecats were
\* counted: no token recommendation, the under-count one
C14_Witness ==
    /\ pc = "p8_exit"
    /\ input_tokens = TokenThreshold * Scale
    /\ polecat_spawns = 25
    /\ Has("polecat count under")
    /\ ~Has("high input tokens")

\* the number of lines of body that hold a character other than white
\* space: the positions of the first such character of each line
NonBlankLines(body) ==
    Cardinality({i \in 1..Len(body) :
        /\ body[i] \notin Whitespace
        /\ \A j \in 1..(i - 1) :
              (\A k \in j..(i - 1) : body[k] # "\n") => body[j] \in Whitespace})

WronglyShaped(doc) ==
    \/ doc.t # "object"
    \/ doc.data # Absent /\ doc.data.t # "object"
    \/ /\ doc.data # Absent /\ doc.data.t = "object" /\ doc.data.result # Absent
       /\ \/ doc.data.result.t \notin {"null", "array"}
          \/ /\ doc.data.result.t = "array"
             /\ \E i \in DOMAIN doc.data.result.items :
                   LET r == doc.data.result.items[i]
                   IN \/ r.t # "object"
                      \/ r.metric # Absent /\ r.metric.t # "object"
                      \/ r.value # Absent /\ r.value.t # "array"
                      \/ r.value # Absent /\ r.value.t = "array" /\ Len(r.value.items) < 2

\* the backend failed to give a usable answer: the transport failed, the
\* body is empty, is not JSON, or is JSON of the wrong shape
BackendFailure(resp) ==
    \/ resp.transport # "ok"
    \/ resp.body.form \in {"empty", "garbage"}
    \/ resp.body.form = "json" /\ WronglyShaped(resp.body.doc)

\* the results of the answer, when it has some
ResultItems(resp) ==
    IF /\ resp.transport = "ok" /\ resp.body.form = "json"
       /\ resp.body.doc.t = "object"
       /\ resp.body.doc.data # Absent /\ resp.body.doc.data.t = "object"
       /\ resp.body.doc.data.result # Absent
       /\ resp.body.doc.data.result.t = "array"
       THEN resp.body.doc.data.result.items
       ELSE <<>>

\* the first result carries the value x
FirstValueIs(resp, x) ==
    /\ ResultItems(resp) # <<>>
    /\ LET first == ResultItems(resp)[1]
       IN /\ first.t = "object"
          /\ first.value # Absent /\ first.value.t = "array"
          /\ Len(first.value.items) >= 2
          /\ first.value.items[2] = x

\* the values explored that stand for a number
NumericValues == {Str(L_42_5), Str(L_NaN), NumV(30)}

SignalDelivered == in_cleanup = "none" /\ in_cleanup' # "none"

\* nothing but the handler's message changes in this step
OnlyMessage == UNCHANGED <<pc, mainVars, fnVars>>

\* C17 as stated: no step ends the background service, and a signal
\* delivered after the handlers are registered only emits a message that
\* names the handle, and the handler returns.
C17_SignalNamesHandle ==
    [][/\ daemon = "launched" => daemon' = "launched"
       /\ SignalDelivered => (in_cleanup' = "PID handle" /\ OnlyMessage)
       /\ (in_cleanup # "none" /\ in_cleanup' # in_cleanup)
             => (in_cleanup' = "none" /\ OnlyMessage)]_vars

\* C17, amended: no step ends the background service; a signal delivered
\* after the handlers are registered only emits a message, which names the
\* handle once phase 3 has returned it to main and shows "?" before that,
\* and the handler returns to where main was.
C17_SignalOnlyLogs ==
    [][/\ daemon = "launched" => daemon' = "launched"
       /\ SignalDelivered
             => /\ handlers
                /\ in_cleanup' = (IF trace_proc = "handle" THEN "PID handle"
                                                             ELSE "PID ?")
                /\ OnlyMessage
       /\ (in_cleanup # "none" /\ in_cleanup' # in_cleanup)
             => (in_cleanup' = "none" /\ OnlyMessage)]_vars

\* a signal arrives while phase 3 is still running, after it has launched
\* the service: the service runs, the message shows "?"
C17_Witness ==
    /\ daemon = "launched"
    /\ trace_proc = "none"
    /\ pc = "p3_tables"
    /\ in_cleanup = "PID ?"

\* C18 as stated: the error count the recommendations of phase 8 are
\* derived from is the one phase 7 collected and reported, whatever the
\* backends answer afterwards.
C18_Phase8UsesPhase7Values ==
    pc \in {"p8_open", "p8_recs", "p8_exit"} => errors = p7_errors

\* C18, amended: phase 8 derives its recommendations from values it
\* queries itself when it starts; the error recommendation follows the
\* error count of phase 8, which is the one of phase 7 only if the log
\* endpoint answered both queries alike.
C18_Phase8UsesOwnQueries ==
    /\ pc \in {"p8_open", "p8_recs", "p8_exit"} => errors = vl_count(log_answer)
    /\ pc = "p8_exit" => (Has("errors detected") <=> vl_count(log_answer) > 0)

\* phase 7 reported two errors, the log endpoint was unreachable in phase
\* 8, and no error recommendation was emitted
C18_Witness ==
    /\ pc = "p8_exit"
    /\ p7_errors = 2
    /\ log_answer.transport = "unreachable"
    /\ errors = -1
    /\ ~Has("errors detected")

\* the columns of a rendered line: what stands between two bars
Columns(line) ==
    LET bars == {i \in 1..Len(line) : line[i] = "|"}
        starts == {i \in bars : \E j \in bars : j > i}
        NextBar(i) == CHOOSE j \in bars : j > i /\ \A k \in bars : k > i => j <= k
        Nth(n) == CHOOSE i \in starts : Cardinality({j \in starts : j < i}) = n - 1
    IN [n \in 1..Cardinality(starts) |-> SubSeq(line, Nth(n) + 1, NextBar(Nth(n)) - 1)]

\* the width of data column i: its widest cell, the header included
ColumnWidth(headers, rows, i) ==
    MaxOf({Len(headers[i])}
          \cup {Len(rows[k][i]) : k \in {k \in DOMAIN rows : i <= Len(rows[k])}})

\* the rendering has rows and header of one width, a separator of that
\* width, and separator columns two wider than the data columns
AlignedTable(headers, rows, out) ==
    /\ out.t = "table"
    /\ \A k \in DOMAIN out.rows : Len(out.rows[k]) = Len(out.header)
    /\ Len(out.sep) = Len(out.header)
    /\ \A i \in DOMAIN headers :
          /\ i \in DOMAIN Columns(out.sep)
          /\ Len(Columns(out.sep)[i]) = ColumnWidth(headers, rows, i) + 2

\* C19 as stated: for any header list and any row list the table is
\* rendered with rows and header of one width, a separator row of that same
\* width, and separator columns two wider than their data columns.
C19_AnyTableAligned ==
    (pc = "returned" /\ fn_in.f = "table")
        => AlignedTable(fn_in.arg.headers, fn_in.arg.rows, fn_out)

\* C19, amended: the same, for a header list that is not empty and rows
\* that have at least as many cells as there are headers.
C19_RectangularTableAligned ==
    (pc = "returned" /\ fn_in.f = "table"
        /\ fn_in.arg.headers # <<>>
        /\ \A k \in DOMAIN fn_in.arg.rows :
              Len(fn_in.arg.rows[k]) >= Len(fn_in.arg.headers))
        => AlignedTable(fn_in.arg.headers, fn_in.arg.rows, fn_out)

\* two headers, a row of two cells that widens the first column and a row
\* of three cells, of which the third is dropped
C19_Witness ==
    /\ pc = "returned"
    /\ fn_in.f = "table"
    /\ fn_in.arg.headers = << <<>>, <<"x", "x">> >>
    /\ fn_in.arg.rows = << << <<"x", "x">>, <<>> >>,
                           << <<>>, <<>>, <<"x", "x">> >> >>
    /\ fn_out.t = "table"
    /\ Len(fn_out.header) = 11
    /\ Len(fn_out.rows[2]) = 11
    /\ Len(fn_out.sep) = 11

\* ceil(t / p) for p > 0, and no fewer than 0
CeilDiv(t, p) == IF t <= 0 THEN 0 ELSE (t + p - 1) \div p

\* the two terminal states of the poller
Terminal == {"Landed", "TimedOut"}

\* C20: when every call of the predicate returns, the poller leaves Polling
\* for exactly one of Landed and TimedOut, after at most
\* ceil(timeout / interval) calls of the predicate; it stays in the terminal
\* state it reached, and the report never says both landed and timed out.
C20_PollerTerminatesOnce ==
    /\ (poller = "Polling") ~> (poller \in Terminal)
    /\ [](calls <= CeilDiv(timeout, poll))
    /\ [][(poller \in Terminal) => (poller' = poller)]_vars
    /\ [](poller = "Landed" =>
             /\ landed
             /\ ~Contains(PhaseArtifact(6), "blockquote timeout"))
    /\ [](poller = "TimedOut" =>
             /\ ~landed
             /\ ~Contains(PhaseArtifact(6), "poll landed")
             /\ ~Contains(PhaseArtifact(6), "blockquote landed"))

\* with a timeout of 3 and an interval of 2 the convoy landed on the second
\* call, the last one the bound allows, and the verdict says landed
C20_Witness ==
    /\ timeout = 3
    /\ poll = 2
    /\ calls = 2
    /\ poller = "Landed"
    /\ Contains(PhaseArtifact(6), "blockquote landed")
    /\ pc = "p7"

\* the convoys shown once the loop is over hold a landed target
LandedAfterLoop ==
    /\ pc = "p6_doctor"
    /\ listing \in TickListings
    /\ TickResult[listing]

\* C21: convoy_landed is never called once elapsed >= timeout; landed
\* implies elapsed < timeout and elapsed a multiple of the poll interval; and
\* when the loop has timed out, a convoy found landed after the last sleep
\* changes nothing: landed stays false and the run carries on with the
\* timeout verdict.
C21_NoCheckOnceTimedOut ==
    /\ [][(calls' = calls + 1) => (elapsed < timeout)]_vars
    /\ [](landed => (elapsed < timeout /\ elapsed % poll = 0))
    /\ []((poller = "TimedOut" /\ LandedAfterLoop)
              => (~landed /\ elapsed >= timeout))
    /\ []((poller = "TimedOut" /\ pc = "p7")
              => /\ ~m_landed
                 /\ Contains(PhaseArtifact(6), "blockquote timeout")
                 /\ ~Contains(PhaseArtifact(6), "blockquote landed"))

\* two ticks found the convoy open, the second sleep took elapsed past the
\* timeout, and the listing after the loop shows the convoy landed
C21_Witness ==
    /\ timeout = 3
    /\ poll = 2
    /\ calls = 2
    /\ elapsed = 4
    /\ poller = "TimedOut"
    /\ ~landed
    /\ LandedAfterLoop

\* the element is an object with string or absent fields that names a
\* target and is in a terminal status
MatchingElement(c) ==
    /\ c.t = "object"
    /\ \A k \in {"title", "name", "status"} : c[k].t \in {"str", "absent"}
    /\ TargetLanded(c)

\* C22: when the listing command exits 0 with a JSON array that holds at
\* least one element matching a target with a terminal status,
\* convoy_landed returns true, whatever the other elements are (objects or
\* not, with null fields or not) and wherever they stand in the array.
C22_LandedWhateverOtherElements ==
    (/\ pc = "returned"
     /\ fn_in.f = "convoy_landed"
     /\ fn_in.arg.rc = 0
     /\ fn_in.arg.form = "json"
     /\ fn_in.arg.doc.t = "array"
     /\ \E i \in DOMAIN fn_in.arg.doc.items :
            MatchingElement(fn_in.arg.doc.items[i]))
        => (fn_out.v = TRUE)

\* C23: a signal delivered after the handlers are registered does not
\* change the phase sequence: the handler returns to the position main was
\* at without setting an exit status, no phase starts before the one before
\* it or more than once, and from a delivery on the run still gets through
\* every phase, its poller ends Landed or TimedOut, and the process exits
\* with status 0.
C23_SignalsKeepPhaseSequence ==
    /\ [][(in_cleanup # "none" /\ in_cleanup' # in_cleanup)
             => (in_cleanup' = "none" /\ UNCHANGED <<pc, exitCode, started>>)]_vars
    /\ [][SignalDelivered => UNCHANGED <<pc, exitCode, started>>]_vars
    /\ [](\A i \in Phases : /\ started[i] <= 1
                             /\ (i > 1 /\ started[i] = 1) => started[i - 1] = 1)
    /\ (in_cleanup # "none")
          ~> (/\ pc = "exit"
              /\ exitCode = 0
              /\ \A i \in Phases : started[i] = 1
              /\ poller \in Terminal)

\* a signal is delivered inside the poller's loop, after a first tick found
\* the convoy open
C23_Witness ==
    /\ in_cleanup = "PID handle"
    /\ pc = "p6_loop"
    /\ poller = "Polling"
    /\ calls = 1

\* phase 8 has sent its queries and neither backend could be reached
BackendsUnreachable ==
    /\ pc \in {"p8_open", "p8_recs", "p8_exit"}
    /\ log_answer.transport = "unreachable"
    /\ metric_answer.spawns.transport = "unreachable"
    /\ metric_answer.tokens.transport = "unreachable"

\* C24: when both telemetry backends are unreachable during phase 8, no
\* fault is raised by the queries and the sentinels are ordinary data: the
\* error count is -1, the spawn count 0 and the input-token count 0; the
\* run summary shows "?" for the error count; and the recommendations hold
\* 'No polecats were spawned' but neither the error-investigation nor the
\* token-usage item.
C24_UnreachableBackendsGiveSentinels ==
    BackendsUnreachable
        => /\ faultAt = "none"
           /\ errors = -1
           /\ polecat_spawns = 0
           /\ input_tokens = 0
           /\ pc \in {"p8_recs", "p8_exit"} => summary_errors = <<"?">>
           /\ pc = "p8_exit" => /\ ~Has("errors detected")
                                /\ Has("no polecats")
                                /\ ~Has("high input tokens")
                                /\ ~Has("polecat count under")
                                /\ ~Has("polecat count over")

\* phase 8 has written its recommendations after a landed convoy with both
\* backends unreachable: the spawn item is the first of five
C24_Witness ==
    /\ BackendsUnreachable
    /\ pc = "p8_exit"
    /\ a_landed
    /\ summary_errors = <<"?">>
    /\ Len(recs) = 5
    /\ recs[1] = <<1, "no polecats">>

\* the sessions that are open
OpenSessions == {a \in Artifacts : IsOpen(a)}

\* C25: at most one report session is open at any time; a step that writes
\* to an artifact writes inside that artifact's session (open before the
\* step, or opened by it) while no other session is open and no other
\* artifact changes; and an artifact whose session is closed ends with the
\* closing status line and is never written again.
C25_OneSessionAtATime ==
    /\ [](Cardinality(OpenSessions) <= 1)
    /\ [][\A a \in Artifacts :
             artifact'[a] # artifact[a]
                => /\ IsOpen(a) \/ opens'[a] = opens[a] + 1
                   /\ \A b \in Artifacts \ {a} :
                         ~IsOpen(b) /\ artifact'[b] = artifact[b]]_vars
    /\ [](\A a \in Artifacts :
             (closes[a] >= 1 /\ ~IsOpen(a)) => LastWrite(a) \in ClosingMarkers)
    /\ [][\A a \in Artifacts :
             (closes[a] >= 1 /\ ~IsOpen(a)) => artifact'[a] = artifact[a]]_vars

\* the index session is the one open session, between the closed session
\* of phase 3 and the session of phase 4 that is not open yet
C25_Witness ==
    /\ pc = "readme_body"
    /\ OpenSessions = {ReadmeArtifact}
    /\ closes[PhaseArtifact(3)] = 1
    /\ LastWrite(PhaseArtifact(3)) = "Completed"
    /\ opens[PhaseArtifact(4)] = 0

====
